---- MODULE Spec2Model ----
(***************************************************************************)
(* Recette: a declarative CLI router.  Model of the command registry, the  *)
(* routing loop of Cli.run, the argument / flag / option extraction        *)
(* utilities and the middleware chain executor.                            *)
(*                                                                         *)
(* Strings are sequences of one-character strings, so that split, join,    *)
(* startsWith, slice and the regular expressions of the parser are         *)
(* computed on characters exactly as the TypeScript code computes them.    *)
(***************************************************************************)
EXTENDS Integers, Sequences, FiniteSets, TLC

(***************************************************************************)
(* Bounds of the model.                                                    *)
(***************************************************************************)
MaxCommands == 2
MaxMiddlewares == 2
MaxRouteCommands == 3
MaxGlobalMiddlewares == 1
MaxParseRest == 3
MaxUnawaited == 1

(***************************************************************************)
(* JavaScript string primitives on character sequences.                    *)
(***************************************************************************)
Lower == {"a","b","c","d","e","f","g","h","i","j","k","l","m",
          "n","o","p","q","r","s","t","u","v","w","x","y","z"}
Upper == {"A","B","C","D","E","F","G","H","I","J","K","L","M",
          "N","O","P","Q","R","S","T","U","V","W","X","Y","Z"}
Digit == {"0","1","2","3","4","5","6","7","8","9"}
\* [a-zA-Z]
AlphaChar == Lower \cup Upper
\* [a-zA-Z_]
AlphaUnderscoreChar == AlphaChar \cup {"_"}
\* [\w-]
WordDashChar == AlphaChar \cup Digit \cup {"_", "-"}

Min(a, b) == IF a < b THEN a ELSE b
Max(a, b) == IF a > b THEN a ELSE b

\* s.slice(from) and s.slice(from, to) with 0-based, non-negative indexes
Slice(s, from, to) ==
  LET f == Min(from, Len(s))
      t == Min(to, Len(s))
  IN IF t <= f THEN << >> ELSE [i \in 1..(t - f) |-> s[f + i]]
SliceFrom(s, from) == Slice(s, from, Len(s))

\* s.startsWith(p)
StartsWith(s, p) == Len(s) >= Len(p) /\ \A i \in 1..Len(p) : s[i] = p[i]
\* s.endsWith(p)
EndsWith(s, p) ==
  Len(s) >= Len(p) /\ \A i \in 1..Len(p) : s[Len(s) - Len(p) + i] = p[i]

\* s.indexOf(ch), 0-based, -1 when absent
IndexOf(s, ch) ==
  IF \E i \in 1..Len(s) : s[i] = ch
  THEN (CHOOSE i \in 1..Len(s) : s[i] = ch /\ \A j \in 1..(i - 1) : s[j] # ch) - 1
  ELSE -1

\* s.includes(p)
Includes(s, p) == \E k \in 0..(Len(s) - Len(p)) : StartsWith(SliceFrom(s, k), p)

\* s.split(" "): every single space separates, empty parts are kept
RECURSIVE Split(_)
Split(s) ==
  LET k == IndexOf(s, " ")
  IN IF k = -1 THEN << s >> ELSE << Slice(s, 0, k) >> \o Split(SliceFrom(s, k + 1))

\* parts.join(" ")
RECURSIVE Join(_)
Join(parts) ==
  IF Len(parts) = 0 THEN << >>
  ELSE IF Len(parts) = 1 THEN parts[1]
  ELSE parts[1] \o << " " >> \o Join(Tail(parts))

\* s.trim() (the only white space in the model is the space character)
RECURSIVE Trim(_)
Trim(s) ==
  IF Len(s) > 0 /\ s[1] = " " THEN Trim(Tail(s))
  ELSE IF Len(s) > 0 /\ s[Len(s)] = " " THEN Trim(Slice(s, 0, Len(s) - 1))
  ELSE s

\* s.split(/\s+/): runs of spaces separate; a leading or trailing run leaves
\* an empty first or last part, and "" splits into [""]
RECURSIVE SkipSpaces(_)
SkipSpaces(s) == IF Len(s) > 0 /\ s[1] = " " THEN SkipSpaces(Tail(s)) ELSE s
RECURSIVE SplitWs(_)
SplitWs(s) ==
  LET k == IndexOf(s, " ")
  IN IF k = -1 THEN << s >>
     ELSE << Slice(s, 0, k) >> \o SplitWs(SkipSpaces(SliceFrom(s, k)))

AllIn(s, chars) == \A i \in 1..Len(s) : s[i] \in chars

\* length of the longest prefix of s made of characters of chars
RECURSIVE RunLen(_, _)
RunLen(s, chars) ==
  IF Len(s) > 0 /\ s[1] \in chars THEN 1 + RunLen(Tail(s), chars) ELSE 0

\* arr.findIndex(pred) result for "first index whose element is in S", 0-based
FindIndex(seq, Test(_)) ==
  IF \E i \in 1..Len(seq) : Test(seq[i])
  THEN (CHOOSE i \in 1..Len(seq) :
          Test(seq[i]) /\ \A j \in 1..(i - 1) : ~Test(seq[j])) - 1
  ELSE -1

(***************************************************************************)
(* JavaScript values: undefined, strings, arrays of strings, booleans.     *)
(***************************************************************************)
Undefined == [t |-> "undefined", v |-> << >>]
Str(s) == [t |-> "string", v |-> s]
Arr(a) == [t |-> "array", v |-> a]
Bool(b) == [t |-> "boolean", v |-> b]
\* what a property inherited from Object.prototype reads as: a function,
\* or the prototype itself for __proto__; never undefined and never a string
Inherited == [t |-> "inherited", v |-> << >>]
\* the names every plain object inherits from Object.prototype
ObjectPrototypeKeys ==
  { << "c", "o", "n", "s", "t", "r", "u", "c", "t", "o", "r" >>,
    << "t", "o", "S", "t", "r", "i", "n", "g" >>,
    << "t", "o", "L", "o", "c", "a", "l", "e", "S", "t", "r", "i", "n", "g" >>,
    << "v", "a", "l", "u", "e", "O", "f" >>,
    << "h", "a", "s", "O", "w", "n", "P", "r", "o", "p", "e", "r", "t", "y" >>,
    << "i", "s", "P", "r", "o", "t", "o", "t", "y", "p", "e", "O", "f" >>,
    << "p", "r", "o", "p", "e", "r", "t", "y", "I", "s", "E", "n", "u", "m", "e", "r", "a", "b", "l", "e" >>,
    << "_", "_", "p", "r", "o", "t", "o", "_", "_" >> }
\* obj[key] on a plain object ({}) whose own keys are DOMAIN obj
Prop(obj, key) ==
  IF key \in DOMAIN obj THEN obj[key]
  ELSE IF key \in ObjectPrototypeKeys THEN Inherited
  ELSE Undefined
\* obj[key] behind a get trap that answers for own properties only
OwnProp(obj, key) == IF key \in DOMAIN obj THEN obj[key] ELSE Undefined
\* obj[key] = value on a plain object ({}); an assignment to __proto__
\* goes to the setter inherited from Object.prototype, which ignores a
\* value that is not an object (every value here is a primitive or an
\* array of the parser, never stored under that name) and creates no key
ProtoKey == << "_", "_", "p", "r", "o", "t", "o", "_", "_" >>
SetProp(obj, key, value) ==
  IF key = ProtoKey THEN obj
  ELSE [k \in (DOMAIN obj) \cup {key} |-> IF k = key THEN value ELSE obj[k]]
EmptyObject == [k \in {} |-> Undefined]

(***************************************************************************)
(* Parser utilities (internal/utils/parser).                               *)
(***************************************************************************)
NoError == "none"

RESERVED_NAMES ==
  { <<"c","o","n","s","t","r","u","c","t","o","r">>,
    <<"p","r","o","t","o","t","y","p","e">>,
    <<"_","_","p","r","o","t","o","_","_">> }

\* checkReserved throws exactly for the reserved names
checkReserved(name) ==
  IF name \in RESERVED_NAMES THEN "Reserved word used as argument/flag/option name"
  ELSE NoError

\* commandDef.match(/\[([^\]]+)\]/g) ?? []
RECURSIVE MatchBrackets(_)
MatchBrackets(s) ==
  LET k == IndexOf(s, "[")
      after == SliceFrom(s, k + 1)
      c == IndexOf(after, "]")
  IN IF k = -1 \/ c = -1 THEN << >>
     ELSE IF c = 0 THEN MatchBrackets(after)
     ELSE << << "[" >> \o Slice(after, 0, c) \o << "]" >> >>
          \o MatchBrackets(SliceFrom(after, c + 1))

\* match.slice(1, -1)
Inner(match) == Slice(match, 1, Len(match) - 1)

Dots == << ".", ".", "." >>

\* extractArgNames: the names, or the error checkReserved throws
extractArgNames(commandDef) ==
  LET StripDots(argName) ==
        IF StartsWith(argName, Dots) THEN SliceFrom(argName, 3) ELSE argName
      Names(matches) == [i \in 1..Len(matches) |-> StripDots(Inner(matches[i]))]
      Checked(names) ==
        LET bad == {i \in 1..Len(names) : checkReserved(names[i]) # NoError}
        IN [err |-> IF bad = {} THEN NoError
                    ELSE checkReserved(names[CHOOSE i \in bad : \A j \in bad : i <= j]),
            names |-> names]
  IN Checked(Names(MatchBrackets(commandDef)))

\* extractArgMetadata
extractArgMetadata(commandDef) ==
  LET StripDots(name) ==
        IF StartsWith(name, Dots) THEN SliceFrom(name, 3) ELSE name
      Metadata(argWithBrackets, optional) ==
        [name |-> StripDots(IF optional
                            THEN Slice(argWithBrackets, 0, Len(argWithBrackets) - 1)
                            ELSE argWithBrackets),
         optional |-> optional]
      MetadataOf(argWithBrackets) ==
        Metadata(argWithBrackets, EndsWith(argWithBrackets, << "?" >>))
      All(matches) == [i \in 1..Len(matches) |-> MetadataOf(Inner(matches[i]))]
  IN All(MatchBrackets(commandDef))

NoShort == << >>

\* one match of /--([a-zA-Z][\w-]*)(\|-[a-zA-Z])?/ anchored at the start of s
FlagMatchAt(s) ==
  LET Match(ok, p, hasShort) ==
        [ok |-> ok,
         len |-> IF hasShort THEN p + 3 ELSE p,
         long |-> Slice(s, 2, p),
         short |-> IF hasShort THEN << s[p + 3] >> ELSE NoShort]
      WithLong(ok, p) ==
        Match(ok, p, ok /\ Len(s) >= p + 3 /\ s[p + 1] = "|" /\ s[p + 2] = "-"
                        /\ s[p + 3] \in AlphaChar)
      WithStart(ok) ==
        WithLong(ok, 2 + (IF ok THEN RunLen(SliceFrom(s, 2), WordDashChar) ELSE 0))
  IN WithStart(StartsWith(s, << "-", "-" >>) /\ Len(s) >= 3 /\ s[3] \in AlphaChar)

\* one match of /--([a-zA-Z][\w-]*)(\|-[a-zA-Z])?=<[\w-]+>/ anchored at the
\* start of s
OptionMatchAt(s) ==
  LET Match(f, q, m) ==
        [ok |-> f.ok /\ m >= 1 /\ Len(s) >= q + 2 + m + 1 /\ s[q + 2 + m + 1] = ">",
         len |-> q + 2 + m + 1, long |-> f.long, short |-> f.short]
      WithName(f, q) ==
        Match(f, q, IF f.ok /\ Len(s) >= q + 2 /\ s[q + 1] = "=" /\ s[q + 2] = "<"
                    THEN RunLen(SliceFrom(s, q + 2), WordDashChar) ELSE 0)
      WithFlag(f) == WithName(f, f.len)
  IN WithFlag(FlagMatchAt(s))

\* all matches of the global option pattern, left to right
RECURSIVE OptionMatches(_)
OptionMatches(s) ==
  LET From(m) == IF m.ok THEN << [long |-> m.long, short |-> m.short] >>
                              \o OptionMatches(SliceFrom(s, m.len))
                 ELSE OptionMatches(Tail(s))
  IN IF Len(s) = 0 THEN << >> ELSE From(OptionMatchAt(s))

\* commandDef.replace(optionPattern, "")
RECURSIVE RemoveOptions(_)
RemoveOptions(s) ==
  LET From(m) == IF m.ok THEN RemoveOptions(SliceFrom(s, m.len))
                 ELSE << s[1] >> \o RemoveOptions(Tail(s))
  IN IF Len(s) = 0 THEN << >> ELSE From(OptionMatchAt(s))

\* all matches of the global flag pattern, left to right
RECURSIVE FlagMatches(_)
FlagMatches(s) ==
  LET From(m) == IF m.ok THEN << [long |-> m.long, short |-> m.short] >>
                              \o FlagMatches(SliceFrom(s, m.len))
                 ELSE FlagMatches(Tail(s))
  IN IF Len(s) = 0 THEN << >> ELSE From(FlagMatchAt(s))

\* the loop shared by extractFlagDefs and extractOptionDefs: reserved words
\* and duplicate long / short names throw, otherwise the match is pushed
RECURSIVE CollectDefs(_, _, _, _, _)
CollectDefs(matches, seenLong, seenShort, result, kind) ==
  IF Len(matches) = 0 THEN [err |-> NoError, defs |-> result]
  ELSE LET m == matches[1]
       IN IF checkReserved(m.long) # NoError
          THEN [err |-> checkReserved(m.long), defs |-> result]
          ELSE IF m.short # NoShort /\ checkReserved(m.short) # NoError
          THEN [err |-> checkReserved(m.short), defs |-> result]
          ELSE IF m.long \in seenLong
          THEN [err |-> IF kind = "flag" THEN "Duplicate flag name"
                        ELSE "Duplicate option name", defs |-> result]
          ELSE IF m.short # NoShort /\ m.short \in seenShort
          THEN [err |-> IF kind = "flag" THEN "Duplicate short flag name"
                        ELSE "Duplicate short option name", defs |-> result]
          ELSE CollectDefs(Tail(matches), seenLong \cup {m.long},
                           IF m.short # NoShort THEN seenShort \cup {m.short}
                           ELSE seenShort,
                           Append(result, m), kind)

extractFlagDefs(commandDef) ==
  CollectDefs(FlagMatches(RemoveOptions(commandDef)), {}, {}, << >>, "flag")

extractOptionDefs(commandDef) ==
  CollectDefs(OptionMatches(commandDef), {}, {}, << >>, "option")

\* defs.find((d) => d.long === name) / d.short === name: the first such
\* definition, or none
HasDef(defs, field, name) == \E i \in 1..Len(defs) : defs[i][field] = name
FindDef(defs, field, name) ==
  defs[CHOOSE i \in 1..Len(defs) :
         defs[i][field] = name /\ \A j \in 1..(i - 1) : defs[j][field] # name]

Dash == << "-" >>
DashDash == << "-", "-" >>

\* The scanning loop of parseOptionsWithConsumed and of parseOptionsMerged:
\* i is the 0-based index of the token examined next
RECURSIVE ScanOptions(_, _, _, _, _)
ScanOptions(optionDefs, args, i, result, consumed) ==
  IF i >= Len(args) THEN [options |-> result, consumedIndexes |-> consumed]
  ELSE
    LET arg == args[i + 1]
        hasNext == i + 1 < Len(args)
        nextOk == hasNext /\ ~StartsWith(args[i + 2], Dash)
    IN IF StartsWith(arg, DashDash)
       THEN LET eqIdx == IndexOf(arg, "=")
            IN IF eqIdx # -1
               THEN LET name == Slice(arg, 2, eqIdx)
                        value == SliceFrom(arg, eqIdx + 1)
                    IN IF HasDef(optionDefs, "long", name)
                       THEN ScanOptions(optionDefs, args, i + 1,
                              SetProp(result, name, Str(value)),
                              consumed \cup {i})
                       ELSE ScanOptions(optionDefs, args, i + 1, result, consumed)
               ELSE LET name == SliceFrom(arg, 2)
                    IN IF HasDef(optionDefs, "long", name) /\ nextOk
                       THEN ScanOptions(optionDefs, args, i + 2,
                              SetProp(result, name, Str(args[i + 2])),
                              consumed \cup {i + 1})
                       ELSE ScanOptions(optionDefs, args, i + 1, result, consumed)
       ELSE IF StartsWith(arg, Dash) /\ Len(arg) = 2
       THEN LET name == SliceFrom(arg, 1)
            IN IF HasDef(optionDefs, "short", name) /\ nextOk
               THEN ScanOptions(optionDefs, args, i + 2,
                      SetProp(result, FindDef(optionDefs, "short", name).long,
                              Str(args[i + 2])),
                      consumed \cup {i + 1})
               ELSE ScanOptions(optionDefs, args, i + 1, result, consumed)
       ELSE ScanOptions(optionDefs, args, i + 1, result, consumed)

\* result[long] = undefined for every definition
InitOptions(optionDefs) ==
  [k \in {optionDefs[i].long : i \in 1..Len(optionDefs)} |-> Undefined]

parseOptionsWithConsumed(commandDef, args) ==
  LET Scan(optionDefs) == ScanOptions(optionDefs, args, 0, InitOptions(optionDefs), {})
  IN Scan(extractOptionDefs(commandDef).defs)

\* the tokens that are not dash-prefixed, option values included
PositionalArgsKeepValues(args, consumedIndexes, i) ==
  SelectSeq(SliceFrom(args, i), LAMBDA v : ~StartsWith(v, Dash))

\* the tokens that are neither dash-prefixed nor consumed as option values
RECURSIVE PositionalArgs(_, _, _)
PositionalArgs(args, consumedIndexes, i) ==
  IF i >= Len(args) THEN << >>
  ELSE (IF ~StartsWith(args[i + 1], Dash) /\ i \notin consumedIndexes
        THEN << args[i + 1] >> ELSE << >>)
       \o PositionalArgs(args, consumedIndexes, i + 1)

\* argNames.forEach((name, i) => result[name] = positionalArgs[i]) when defined
RECURSIVE AssignArgs(_, _, _, _)
AssignArgs(argNames, positionalArgs, i, result) ==
  IF i > Len(argNames) THEN result
  ELSE AssignArgs(argNames, positionalArgs, i + 1,
         IF i <= Len(positionalArgs)
         THEN SetProp(result, argNames[i], Str(positionalArgs[i]))
         ELSE result)

IsVariadicMatch(match) == StartsWith(match, << "[" >> \o Dots)

parseCommandArgs(commandDef, args) ==
  LET ArgName(argName) ==
        IF StartsWith(argName, Dots) THEN SliceFrom(argName, 3)
        ELSE IF EndsWith(argName, << "?" >>)
        THEN Slice(argName, 0, Len(argName) - 1)
        ELSE argName
      Assign(argNames, variadicIndex, positionalArgs) ==
        IF variadicIndex = -1
        THEN AssignArgs(argNames, positionalArgs, 1, EmptyObject)
        ELSE SetProp(AssignArgs(Slice(argNames, 0, variadicIndex), positionalArgs,
                                1, EmptyObject),
                     argNames[variadicIndex + 1],
                     Arr(SliceFrom(positionalArgs, variadicIndex)))
      Parse(matches) ==
        Assign([i \in 1..Len(matches) |-> ArgName(Inner(matches[i]))],
               FindIndex(matches, IsVariadicMatch),
               PositionalArgs(args,
                 parseOptionsWithConsumed(commandDef, args).consumedIndexes, 0))
  IN Parse(MatchBrackets(commandDef))

\* validateArgs: the name of the first required argument found missing (the
\* thrown error), or NoError
validateArgs(commandDef, parsedArgs) ==
  LET IsMissing(meta, value, isVariadic) ==
        /\ ~meta.optional
        /\ \/ value.t = "undefined"
           \/ (~isVariadic /\ value.t = "array" /\ Len(value.v) = 0)
      Missing(meta) ==
        IsMissing(meta, Prop(parsedArgs, meta.name),
                  Includes(commandDef, << "[" >> \o Dots \o meta.name \o << "]" >>))
      FirstOf(argMetadata, bad) ==
        IF bad = {} THEN [err |-> NoError, name |-> << >>]
        ELSE [err |-> "Required argument is missing",
              name |-> argMetadata[CHOOSE i \in bad : \A j \in bad : i <= j].name]
      Validate(argMetadata) ==
        FirstOf(argMetadata, {i \in 1..Len(argMetadata) : Missing(argMetadata[i])})
  IN Validate(extractArgMetadata(commandDef))

(***************************************************************************)
(* COMMAND_UNIT_PATTERNS and validateCommandUnits.                         *)
(***************************************************************************)
\* /^[a-zA-Z][\w-]*$/
UnitIsName(u) == Len(u) >= 1 /\ u[1] \in AlphaChar /\ AllIn(Tail(u), WordDashChar)

\* the bracket unit without brackets, "..." prefix and "?" suffix, as the
\* regular expressions of the validator decompose it
BracketBody(u) ==
  LET StripDots(a) == IF StartsWith(a, Dots) THEN SliceFrom(a, 3) ELSE a
      StripMark(a) == IF EndsWith(a, << "?" >>) THEN Slice(a, 0, Len(a) - 1) ELSE a
  IN StripMark(StripDots(Inner(u)))

\* /^\[(\.\.\.)?[a-zA-Z_][\w-]*\??\]$/
UnitIsArg(u) ==
  LET IsArgName(b) ==
        Len(b) >= 1 /\ b[1] \in AlphaUnderscoreChar /\ AllIn(Tail(b), WordDashChar)
  IN /\ Len(u) >= 3 /\ u[1] = "[" /\ u[Len(u)] = "]"
     /\ IsArgName(BracketBody(u))

\* /^\[\.\.\.[a-zA-Z_][\w-]*\??\]$/
UnitIsVariadic(u) == UnitIsArg(u) /\ StartsWith(Inner(u), Dots)
\* /^\[[a-zA-Z_][\w-]*\??\]$/
UnitIsPositional(u) == UnitIsArg(u) /\ ~StartsWith(Inner(u), Dots)

\* /^--[a-zA-Z][\w-]+(\|-[a-zA-Z])?$/
UnitIsFlag(u) ==
  LET Whole(f) == f.ok /\ f.len = Len(u) /\ Len(f.long) >= 2
  IN Whole(FlagMatchAt(u))

\* /^--[a-zA-Z][\w-]+(\|-[a-zA-Z])?=<[\w-]+>$/
UnitIsOption(u) ==
  LET Whole(o) == o.ok /\ o.len = Len(u) /\ Len(o.long) >= 2
  IN Whole(OptionMatchAt(u))

COMMAND_UNIT_PATTERNS(u) ==
  UnitIsName(u) \/ UnitIsArg(u) \/ UnitIsFlag(u) \/ UnitIsOption(u)


\* validateCommandUnits: the error it throws, or NoError
validateCommandUnits(commandDef) ==
  LET FirstTrue(flags) ==
        IF \E i \in 1..Len(flags) : flags[i]
        THEN (CHOOSE i \in 1..Len(flags) :
                flags[i] /\ \A j \in 1..(i - 1) : ~flags[j]) - 1
        ELSE -1
      Check(valid, variadic, positional, variadicIdx) ==
        IF \E i \in 1..Len(valid) : ~valid[i]
        THEN "Invalid command syntax"
        ELSE IF variadicIdx = -1 THEN NoError
        ELSE IF Cardinality({i \in 1..Len(variadic) : variadic[i]}) > 1
        THEN "Only one variadic argument is allowed"
        ELSE IF \E i \in (variadicIdx + 2)..Len(valid) : positional[i] \/ variadic[i]
        THEN "No positional or variadic argument allowed after variadic argument"
        ELSE NoError
      Tested(valid, variadic, positional) ==
        Check(valid, variadic, positional, FirstTrue(variadic))
      WithUnits(units) ==
        Tested([i \in 1..Len(units) |-> COMMAND_UNIT_PATTERNS(units[i])],
               [i \in 1..Len(units) |-> UnitIsVariadic(units[i])],
               [i \in 1..Len(units) |-> UnitIsPositional(units[i])])
  IN WithUnits(SplitWs(Trim(commandDef)))

\* the tokens isMiddlewareMatch keeps: not starting with "--", "-" or "["
IsLiteralToken(t) ==
  ~StartsWith(t, DashDash) /\ ~StartsWith(t, Dash) /\ ~StartsWith(t, << "[" >>)

\* a match that looks at the first literal token of the path only
isMiddlewareMatchFirstToken(mwPath, cmdDef) ==
  IF Len(Trim(mwPath)) = 0 THEN TRUE
  ELSE LET Match(mwTokens, cmdTokens) ==
             IF Len(mwTokens) = 0 THEN TRUE
             ELSE Len(cmdTokens) > 0 /\ cmdTokens[1] = mwTokens[1]
       IN Match(SelectSeq(SplitWs(Trim(mwPath)), IsLiteralToken),
                SelectSeq(SplitWs(Trim(cmdDef)), IsLiteralToken))

isMiddlewareMatch(mwPath, cmdDef) ==
  IF Len(Trim(mwPath)) = 0 THEN TRUE
  ELSE LET Match(mwTokens, cmdTokens) ==
             IF Len(mwTokens) = 0 THEN TRUE
             ELSE \A i \in 1..Len(mwTokens) :
                    i <= Len(cmdTokens) /\ cmdTokens[i] = mwTokens[i]
       IN Match(SelectSeq(SplitWs(Trim(mwPath)), IsLiteralToken),
                SelectSeq(SplitWs(Trim(cmdDef)), IsLiteralToken))

(***************************************************************************)
(* Cli: the registry operations.                                           *)
(***************************************************************************)
\* the first duplicate of a list of names, if any
HasDuplicate(names) ==
  \E i, j \in 1..Len(names) : i < j /\ names[i] = names[j]

\* the error Cli.command throws for a pattern, or NoError
commandError(name) ==
  LET FirstError(unitsErr, flagDefs, optionDefs, argNames) ==
        IF unitsErr # NoError THEN unitsErr
        ELSE IF flagDefs.err # NoError THEN flagDefs.err
        ELSE IF optionDefs.err # NoError THEN optionDefs.err
        ELSE IF \E i \in 1..Len(optionDefs.defs), j \in 1..Len(flagDefs.defs) :
                  optionDefs.defs[i].long = flagDefs.defs[j].long
        THEN "Duplicate flag and option name"
        ELSE IF argNames.err # NoError THEN argNames.err
        ELSE IF HasDuplicate(argNames.names) THEN "Duplicate argument name"
        ELSE NoError
  IN FirstError(validateCommandUnits(name), extractFlagDefs(name),
                extractOptionDefs(name), extractArgNames(name))

\* Map.prototype.set on the insertion-ordered commands map
MapSet(cmds, def, entry) ==
  IF \E i \in 1..Len(cmds) : cmds[i].def = def
  THEN [i \in 1..Len(cmds) |-> IF cmds[i].def = def THEN entry ELSE cmds[i]]
  ELSE Append(cmds, entry)

\* the error Cli.use throws for a path, or NoError
useError(path) ==
  LET FirstError(unitsErr) ==
        IF unitsErr # NoError THEN unitsErr
        ELSE IF Len(MatchBrackets(path)) > 0
        THEN "Middleware path must not contain positional or variadic arguments"
        ELSE NoError
  IN FirstError(validateCommandUnits(path))

(***************************************************************************)
(* Cli.run: the routing loop.                                              *)
(***************************************************************************)
\* the leading parts of def.split(" ") before the first "[" or "--" part
RECURSIVE TakeNameParts(_)
TakeNameParts(defParts) ==
  IF Len(defParts) = 0 THEN << >>
  ELSE IF StartsWith(defParts[1], << "[" >>) \/ StartsWith(defParts[1], DashDash)
  THEN << >>
  ELSE << defParts[1] >> \o TakeNameParts(Tail(defParts))

cmdNameParts(def) == TakeNameParts(Split(def))

\* the number of required (non-optional, non-variadic) bracket parts
requiredArgsCount(def) ==
  LET argDefs == SelectSeq(SliceFrom(Split(def), Len(cmdNameParts(def))),
                           LAMBDA p : StartsWith(p, << "[" >>))
  IN Len(SelectSeq(argDefs,
           LAMBDA a : ~EndsWith(a, << "?", "]" >>)
                      /\ ~StartsWith(a, << "[" >> \o Dots)))

\* the name path of def equals the leading tokens of the arguments, compared
\* as the code compares them: both joined with single spaces
NamePathMatches(def, actualArgs) ==
  Join(cmdNameParts(def)) = Join(Slice(actualArgs, 0, Len(cmdNameParts(def))))

\* the possibleSub test: some other registered key extends def and its parts
\* after the name path begin with all the remaining arguments
SkippedForSub(cmds, def, actualArgs) ==
  LET L == Len(cmdNameParts(def))
      restArgs == SliceFrom(actualArgs, L)
  IN /\ Len(restArgs) > 0
     /\ \E i \in 1..Len(cmds) :
          /\ StartsWith(cmds[i].def, def \o << " " >>)
          /\ cmds[i].def # def
          /\ LET parts == SliceFrom(Split(cmds[i].def), L)
             IN /\ Len(parts) >= Len(restArgs)
                /\ Join(Slice(parts, 0, Len(restArgs))) = Join(restArgs)

NoEntry == [def |-> << >>, handler |-> "none"]
NoDef == << >>

\* a loop that keeps the first pattern whose name path matches and whose
\* required positionals are covered, whatever the length of its name path
RouteStepFirstWins(cmds, actualArgs, entry, acc) ==
  LET def == entry.def
      L == Len(cmdNameParts(def))
      restArgs == SliceFrom(actualArgs, L)
  IN IF ~NamePathMatches(def, actualArgs) THEN acc
     ELSE IF SkippedForSub(cmds, def, actualArgs) THEN acc
     ELSE IF Len(restArgs) < requiredArgsCount(def)
     THEN IF L > acc.matchedLen
          THEN [acc EXCEPT !.missingArgsDef = def, !.matchedLen = L]
          ELSE acc
     ELSE IF L > 0 /\ acc.found = NoEntry
     THEN [found |-> entry, matchedLen |-> L, missingArgsDef |-> NoDef]
     ELSE acc

\* one iteration of the loop over this.commands
RouteStep(cmds, actualArgs, entry, acc) ==
  LET def == entry.def
      L == Len(cmdNameParts(def))
      restArgs == SliceFrom(actualArgs, L)
  IN IF ~NamePathMatches(def, actualArgs) THEN acc
     ELSE IF SkippedForSub(cmds, def, actualArgs) THEN acc
     ELSE IF Len(restArgs) < requiredArgsCount(def)
     THEN IF L > acc.matchedLen
          THEN [acc EXCEPT !.missingArgsDef = def, !.matchedLen = L]
          ELSE acc
     ELSE IF L > acc.matchedLen
     THEN [found |-> entry, matchedLen |-> L, missingArgsDef |-> NoDef]
     ELSE acc

RECURSIVE RouteLoop(_, _, _, _)
RouteLoop(cmds, actualArgs, i, acc) ==
  IF i > Len(cmds) THEN acc
  ELSE RouteLoop(cmds, actualArgs, i + 1, RouteStep(cmds, actualArgs, cmds[i], acc))

Route(cmds, actualArgs) ==
  RouteLoop(cmds, actualArgs, 1,
            [found |-> NoEntry, matchedLen |-> 0, missingArgsDef |-> NoDef])

\* the name printed by the missing-argument report of the not-found branch
MissingArgName(missingArgsDef, actualArgs) ==
  LET L == Len(cmdNameParts(missingArgsDef))
      argDefs == SelectSeq(SliceFrom(Split(missingArgsDef), L),
                   LAMBDA p : StartsWith(p, << "[" >>)
                              /\ ~EndsWith(p, << "?", "]" >>)
                              /\ ~StartsWith(p, << "[" >> \o Dots))
      k == Len(actualArgs) - L
      missingArg == IF k >= 0 /\ k < Len(argDefs) THEN argDefs[k + 1]
                    ELSE IF Len(argDefs) > 0 THEN argDefs[1]
                    ELSE << "[", "a", "r", "g", "]" >>
  IN SelectSeq(missingArg, LAMBDA ch : ch \notin {"[", "]", "?"})

\* the report of the branch taken when no command was found
NotFoundReport(cmds, actualArgs, missingArgsDef) ==
  IF Len(missingArgsDef) > 0
  THEN [kind |-> "missing", def |-> missingArgsDef,
        arg |-> MissingArgName(missingArgsDef, actualArgs)]
  ELSE IF \E i \in 1..Len(cmds) :
            StartsWith(cmds[i].def, Join(actualArgs) \o << " " >>)
  THEN [kind |-> "group", def |-> NoDef, arg |-> << >>]
  ELSE IF Len(actualArgs) > 0
  THEN [kind |-> "unknown", def |-> NoDef, arg |-> actualArgs[1]]
  ELSE [kind |-> "usage", def |-> NoDef, arg |-> << >>]

NoReport == [kind |-> "none", def |-> NoDef, arg |-> << >>]

(***************************************************************************)
(* Cli.run: matched middleware, merged definitions, parsing.               *)
(***************************************************************************)
\* this.middlewares.filter((mw) => isMiddlewareMatch(mw.path, commandDef))
matchedMiddlewares(mws, commandDef) ==
  SelectSeq(mws, LAMBDA mw : isMiddlewareMatch(mw.path, commandDef))

\* paths.flatMap((p) => extractFlagDefs(p)) and the same for options
RECURSIVE FlatFlagDefs(_)
FlatFlagDefs(paths) ==
  IF Len(paths) = 0 THEN << >>
  ELSE extractFlagDefs(paths[1]).defs \o FlatFlagDefs(Tail(paths))
RECURSIVE FlatOptionDefs(_)
FlatOptionDefs(paths) ==
  IF Len(paths) = 0 THEN << >>
  ELSE extractOptionDefs(paths[1]).defs \o FlatOptionDefs(Tail(paths))

\* for (const d of all) map.set(d.long, d); Array.from(map.values())
RECURSIVE MergeDefs(_, _)
MergeDefs(all, merged) ==
  IF Len(all) = 0 THEN merged
  ELSE MergeDefs(Tail(all),
         IF \E i \in 1..Len(merged) : merged[i].long = all[1].long
         THEN [i \in 1..Len(merged) |->
                 IF merged[i].long = all[1].long THEN all[1] ELSE merged[i]]
         ELSE Append(merged, all[1]))

MwPaths(matched) == [i \in 1..Len(matched) |-> matched[i].path]

mergedFlagDefs(commandDef, matched) ==
  MergeDefs(FlatFlagDefs(<< commandDef >> \o MwPaths(matched)), << >>)

mergedOptionDefs(commandDef, matched) ==
  MergeDefs(FlatOptionDefs(<< commandDef >> \o MwPaths(matched)), << >>)

\* the first error thrown while the definitions of the command and of the
\* matched middleware are extracted inside run(), or NoError
ExtractError(commandDef, matched) ==
  LET First(errs, bad) ==
        IF bad = {} THEN NoError ELSE errs[CHOOSE i \in bad : \A j \in bad : i <= j]
      FirstOf(errs) == First(errs, {i \in 1..Len(errs) : errs[i] # NoError})
      Errors(paths) ==
        FirstOf([i \in 1..(2 * Len(paths)) |->
                   IF i <= Len(paths) THEN extractFlagDefs(paths[i]).err
                   ELSE extractOptionDefs(paths[i - Len(paths)]).err])
  IN Errors(<< commandDef >> \o MwPaths(matched))

\* the token loop of parseFlagsMerged
RECURSIVE ScanFlags(_, _, _)
ScanFlags(flagDefs, args, result) ==
  IF Len(args) = 0 THEN result
  ELSE LET arg == args[1]
       IN ScanFlags(flagDefs, Tail(args),
            IF StartsWith(arg, DashDash)
            THEN IF HasDef(flagDefs, "long", SliceFrom(arg, 2))
                 THEN SetProp(result, SliceFrom(arg, 2), Bool(TRUE))
                 ELSE result
            ELSE IF StartsWith(arg, Dash) /\ Len(arg) = 2
                    /\ HasDef(flagDefs, "short", SliceFrom(arg, 1))
            THEN SetProp(result, FindDef(flagDefs, "short", SliceFrom(arg, 1)).long,
                         Bool(TRUE))
            ELSE result)

parseFlagsMerged(flagDefs, args) ==
  ScanFlags(flagDefs, args,
            [k \in {flagDefs[i].long : i \in 1..Len(flagDefs)} |-> Bool(FALSE)])

parseOptionsMerged(optionDefs, args) ==
  ScanOptions(optionDefs, args, 0, InitOptions(optionDefs), {}).options

(***************************************************************************)
(* The state of one Cli instance and of the run() in progress.             *)
(***************************************************************************)
VARIABLES
  commands,      \* this.commands: insertion-ordered map, pattern -> entry
  middlewares,   \* this.middlewares: array of {path, handler}
  thrown,        \* the error thrown by the last command() / use() call
  status,        \* "idle", or "started" once run() has been called
  actualArgs,    \* the arguments of the run
  found,         \* the entry the routing loop resolved, or NoEntry
  report,        \* what run() reported on console (usage / error), if anything
  result,        \* the promise returned by run(): pending, resolved, rejected
  parsedArgs,    \* the run's parsedArgs object
  parsedFlags,   \* the run's parsedFlags object
  parsedOptions, \* the run's parsedOptions object
  handlers,      \* the run's handlers array: matched middleware, then handler
  idx,           \* the run's idx counter
  links,         \* per handlers entry: the state of its invocation
  trace,         \* the order in which link code executed
  variables,     \* the run's variables object, behind context.set / get
  second,        \* another run() in progress on the same instance
  journal,       \* what the links passed to set and received from get
  subs,          \* the other Cli instances: their commands and middlewares
  mounted        \* per instance: its commands as its own last call left them

vars == << commands, middlewares, thrown, status, actualArgs, found, report,
           result, parsedArgs, parsedFlags, parsedOptions, handlers, idx,
           links, trace, variables, second, journal, subs, mounted >>

registryVars == << commands, middlewares, thrown >>
storeVars == << variables, second, journal >>
mountVars == << subs, mounted >>
runVars == << status, actualArgs, found, report, result, parsedArgs,
              parsedFlags, parsedOptions, handlers, idx, links, trace >>

NextTwice == "next() called multiple times"
\* the error a link throws of its own: the handler's or a middleware's
ErrorOf(i) == IF i = Len(handlers) THEN "handler error" ELSE "mw error"

Pending == [kind |-> "pending", err |-> NoError]
Resolved == [kind |-> "resolved", err |-> NoError]
Rejected(e) == [kind |-> "rejected", err |-> e]

\* a link that has not been invoked
\* called is the flag of the link's continuation; calls counts the
\* invocations of the continuation up to "more than one" (every invocation
\* after the first behaves alike: it throws, which sets rejected), unawaited
\* those not awaited
IdleLink == [st |-> "idle", called |-> FALSE, calls |-> 0, rejected |-> FALSE,
             unawaited |-> 0, err |-> NoError]
Saturate(n) == Min(n, 2)

\* a store kept on the instance: a run goes on with the object it finds
KeptStore == variables
\* const variables = {}
FreshStore == EmptyObject
\* nothing read yet; nothing set and nothing read yet
NoGot == [run |-> 0, link |-> 0, key |-> << >>, value |-> Undefined]
NoJournal == [written |-> EmptyObject, got |-> NoGot]
\* no second run in progress
NoSecond == [status |-> "idle", variables |-> EmptyObject, written |-> EmptyObject]

\* the instances besides the one that runs: mid is mounted into it, and
\* inner is mounted into mid
Subs == {"mid", "inner"}
Parents == {"root", "mid"}
NoSubs == [s \in Subs |-> [commands |-> << >>, middlewares |-> << >>]]

Init ==
  /\ subs = NoSubs
  /\ mounted = [r \in Parents |-> << >>]
  /\ variables = EmptyObject
  /\ second = NoSecond
  /\ journal = NoJournal
  /\ commands = << >>
  /\ middlewares = << >>
  /\ thrown = NoError
  /\ status = "idle"
  /\ actualArgs = << >>
  /\ found = NoEntry
  /\ report = NoReport
  /\ result = Pending
  /\ parsedArgs = EmptyObject
  /\ parsedFlags = EmptyObject
  /\ parsedOptions = EmptyObject
  /\ handlers = << >>
  /\ idx = 0
  /\ links = << >>
  /\ trace = << >>

(***************************************************************************)
(* Registration.                                                           *)
(***************************************************************************)
\* a command() that stores the entry before it validates the pattern
CommandStoresFirst(name, handler, cap) ==
  /\ (Len(commands) < cap \/ \E i \in 1..Len(commands) : commands[i].def = name)
  /\ thrown' = commandError(name)
  /\ commands' = MapSet(commands, name, [def |-> name, handler |-> handler])
  /\ mounted' = [mounted EXCEPT !["root"] = commands']
  /\ UNCHANGED << middlewares, runVars, storeVars, subs >>

\* cli.command(name, handler)
Command(name, handler, cap) ==
  /\ (Len(commands) < cap \/ \E i \in 1..Len(commands) : commands[i].def = name)
  /\ thrown' = commandError(name)
  /\ commands' = IF thrown' = NoError
                 THEN MapSet(commands, name, [def |-> name, handler |-> handler])
                 ELSE commands
  /\ mounted' = [mounted EXCEPT !["root"] = commands']
  /\ UNCHANGED << middlewares, runVars, storeVars, subs >>

\* a use() whose middleware joins the chain of the run in progress, as it
\* would if the chain were read from this.middlewares at every next()
UseLive(path, handler, cap) ==
  /\ Len(middlewares) < cap
  /\ thrown' = useError(path)
  /\ middlewares' = IF thrown' = NoError
                    THEN Append(middlewares, [path |-> path, handler |-> handler])
                    ELSE middlewares
  /\ IF /\ status = "started" /\ handlers # << >> /\ thrown' = NoError
        /\ isMiddlewareMatch(path, found.def)
     THEN /\ handlers' = SubSeq(handlers, 1, Len(handlers) - 1)
                            \o << handler, handlers[Len(handlers)] >>
          /\ links' = SubSeq(links, 1, Len(links) - 1)
                         \o << IdleLink, links[Len(links)] >>
     ELSE UNCHANGED << handlers, links >>
  /\ UNCHANGED << commands, storeVars, mountVars, status, actualArgs, found,
                  report, result, parsedArgs, parsedFlags, parsedOptions, idx,
                  trace >>

\* cli.use(path, handler)
Use(path, handler, cap) ==
  /\ Len(middlewares) < cap
  /\ thrown' = useError(path)
  /\ middlewares' = IF thrown' = NoError
                    THEN Append(middlewares, [path |-> path, handler |-> handler])
                    ELSE middlewares
  /\ UNCHANGED << commands, runVars, storeVars, mountVars >>

(***************************************************************************)
(* Cli.run up to its first suspension.                                     *)
(***************************************************************************)
\* run() returns after a report, or rejects, before any link is invoked
RunEndsEarly(args, entry, rep, res) ==
  /\ status' = "started"
  /\ actualArgs' = args
  /\ found' = entry
  /\ report' = rep
  /\ result' = res
  /\ parsedArgs' = EmptyObject
  /\ parsedFlags' = EmptyObject
  /\ parsedOptions' = EmptyObject
  /\ handlers' = << >>
  /\ idx' = 0
  /\ links' = << >>
  /\ trace' = << >>
  /\ variables' = FreshStore
  /\ journal' = NoJournal
  /\ UNCHANGED << second, mountVars >>

Run(args) ==
  /\ status = "idle"
  /\ UNCHANGED registryVars
  /\ \E r \in {Route(commands, args)} :
       IF r.found = NoEntry
       THEN RunEndsEarly(args, NoEntry,
                         NotFoundReport(commands, args, r.missingArgsDef), Resolved)
       ELSE
         \E commandDef \in {r.found.def} :
         \E restArgs \in {SliceFrom(args, Len(cmdNameParts(commandDef)))} :
         \E matched \in {matchedMiddlewares(middlewares, commandDef)} :
         \E extractError \in {ExtractError(commandDef, matched)} :
         \E pArgs \in {parseCommandArgs(commandDef, restArgs)} :
         \E valid \in {validateArgs(commandDef, pArgs)} :
         \E hs \in {[i \in 1..(Len(matched) + 1) |->
                       IF i <= Len(matched) THEN matched[i].handler
                       ELSE r.found.handler]} :
            IF extractError # NoError
            THEN RunEndsEarly(args, r.found, NoReport, Rejected(extractError))
            ELSE IF valid.err # NoError
            THEN RunEndsEarly(args, r.found,
                   [kind |-> "missing", def |-> commandDef, arg |-> valid.name],
                   Resolved)
            ELSE
               /\ status' = "started"
               /\ actualArgs' = args
               /\ found' = r.found
               /\ report' = NoReport
               /\ result' = Pending
               /\ parsedArgs' = pArgs
               /\ parsedFlags' =
                    parseFlagsMerged(mergedFlagDefs(commandDef, matched), restArgs)
               /\ parsedOptions' =
                    parseOptionsMerged(mergedOptionDefs(commandDef, matched), restArgs)
               /\ handlers' = hs
               \* await next(): the first link is invoked synchronously
               /\ idx' = 1
               /\ links' = [i \in 1..Len(hs) |->
                              IF i = 1 THEN [IdleLink EXCEPT !.st = "running"]
                              ELSE IdleLink]
               /\ trace' = << << "enter", 1 >> >>
               /\ variables' = FreshStore
               /\ journal' = NoJournal
               /\ UNCHANGED << second, mountVars >>

(***************************************************************************)
(* The context accessors handed to middleware and handler.                 *)
(***************************************************************************)
\* c.arg(name)
arg(name) ==
  IF Prop(parsedArgs, name).t = "string" THEN Prop(parsedArgs, name) ELSE Undefined
\* c.args(name)
args(name) ==
  IF Prop(parsedArgs, name).t = "array" THEN Prop(parsedArgs, name).v ELSE << >>
\* c.flag(name)
flag(name) == OwnProp(parsedFlags, name)
\* c.option(name)
option(name) == Prop(parsedOptions, name)

(***************************************************************************)
(* The middleware chain: next() and the continuation handed to each link.  *)
(***************************************************************************)
Running(i) == i \in 1..Len(links) /\ links[i].st = "running"

\* the number of continuation calls made so far without awaiting them
RECURSIVE SumUnawaited(_)
SumUnawaited(ls) ==
  IF Len(ls) = 0 THEN 0 ELSE ls[1].unawaited + SumUnawaited(Tail(ls))
MayCall(i, awaited) == awaited \/ SumUnawaited(links) < MaxUnawaited

\* run() without error propagation: the promise resolves whatever the outcome
SettleSwallows(i, outcome) == IF i = 1 THEN Resolved ELSE result

\* the promise returned by run() settles with the outcome of the first link
Settle(i, outcome) == IF i = 1 THEN outcome ELSE result

\* a continuation that does not suspend its caller: the caller goes on
\* running beside the link it has just invoked
LinkCallsNextNoSuspend(i, awaited) ==
  /\ status = "started" /\ Running(i)
  /\ ~links[i].called
  /\ MayCall(i, awaited)
  /\ IF idx >= Len(handlers)
     THEN /\ links' = [links EXCEPT ![i].called = TRUE,
                                    ![i].calls = Saturate(@ + 1),
                                    ![i].unawaited = IF awaited THEN @ ELSE @ + 1]
          /\ trace' = IF awaited THEN Append(trace, << "resume", i >>) ELSE trace
          /\ idx' = idx
     ELSE /\ idx' = idx + 1
          /\ links' = [links EXCEPT ![i].called = TRUE,
                                    ![i].calls = Saturate(@ + 1),
                                    ![i].unawaited = IF awaited THEN @ ELSE @ + 1,
                                    ![idx + 1].st = "running"]
          /\ trace' = Append(trace, << "enter", idx + 1 >>)
  /\ UNCHANGED << registryVars, storeVars, mountVars, status, actualArgs, found, report, result,
                  parsedArgs, parsedFlags, parsedOptions, handlers >>

\* link i invokes its continuation for the first time: called = true, next()
LinkCallsNext(i, awaited) ==
  /\ status = "started" /\ Running(i)
  /\ ~links[i].called
  /\ MayCall(i, awaited)
  /\ IF idx >= Len(handlers)
     THEN \* if (idx >= handlers.length) return;
          /\ links' = [links EXCEPT ![i].called = TRUE,
                                    ![i].calls = Saturate(@ + 1),
                                    ![i].unawaited = IF awaited THEN @ ELSE @ + 1]
          /\ trace' = IF awaited THEN Append(trace, << "resume", i >>) ELSE trace
          /\ idx' = idx
     ELSE \* const fn = handlers[idx++]; await fn(context, continuation)
          /\ idx' = idx + 1
          /\ links' = [links EXCEPT ![i].called = TRUE,
                                    ![i].calls = Saturate(@ + 1),
                                    ![i].unawaited = IF awaited THEN @ ELSE @ + 1,
                                    ![i].st = IF awaited THEN "awaiting" ELSE "running",
                                    ![idx + 1].st = "running"]
          /\ trace' = Append(trace, << "enter", idx + 1 >>)
  /\ UNCHANGED << registryVars, storeVars, mountVars, status, actualArgs, found, report, result,
                  parsedArgs, parsedFlags, parsedOptions, handlers >>

\* a continuation without the called flag: a repeated invocation is next()
\* once more
LinkCallsNextAgainNoFlag(i, awaited, catches) ==
  /\ status = "started" /\ Running(i)
  /\ links[i].called
  /\ MayCall(i, awaited)
  /\ (catches => awaited)
  /\ IF idx >= Len(handlers)
     THEN /\ links' = [links EXCEPT ![i].calls = Saturate(@ + 1),
                                    ![i].unawaited = IF awaited THEN @ ELSE @ + 1]
          /\ idx' = idx
          /\ trace' = trace
     ELSE /\ idx' = idx + 1
          /\ links' = [links EXCEPT ![i].calls = Saturate(@ + 1),
                                    ![i].unawaited = IF awaited THEN @ ELSE @ + 1,
                                    ![i].st = IF awaited THEN "awaiting" ELSE "running",
                                    ![idx + 1].st = "running"]
          /\ trace' = Append(trace, << "enter", idx + 1 >>)
  /\ UNCHANGED << registryVars, storeVars, mountVars, status, actualArgs, found, report, result,
                  parsedArgs, parsedFlags, parsedOptions, handlers >>

\* link i invokes its continuation again: the continuation throws; an
\* awaiting caller either catches the error or lets it propagate
LinkCallsNextAgain(i, awaited, catches) ==
  /\ status = "started" /\ Running(i)
  /\ links[i].called
  /\ MayCall(i, awaited)
  /\ (catches => awaited)
  /\ links' = IF awaited /\ ~catches
              THEN [links EXCEPT ![i].calls = Saturate(@ + 1),
                                 ![i].rejected = TRUE,
                                 ![i].st = "threw",
                                 ![i].err = NextTwice]
              ELSE [links EXCEPT ![i].calls = Saturate(@ + 1),
                                 ![i].rejected = TRUE,
                                 ![i].unawaited = IF awaited THEN @ ELSE @ + 1]
  /\ result' = IF awaited /\ ~catches THEN Settle(i, Rejected(NextTwice)) ELSE result
  /\ UNCHANGED << registryVars, storeVars, mountVars, status, actualArgs, found, report, parsedArgs,
                  parsedFlags, parsedOptions, handlers, idx, trace >>

\* a chain that goes on by itself: the return of a link that did not call
\* its continuation invokes the next handler
LinkReturnsAndContinues(i) ==
  /\ status = "started" /\ Running(i)
  /\ result' = Settle(i, Resolved)
  /\ IF ~links[i].called /\ idx < Len(handlers)
     THEN /\ idx' = idx + 1
          /\ links' = [links EXCEPT ![i].st = "returned", ![idx + 1].st = "running"]
          /\ trace' = Append(trace, << "enter", idx + 1 >>)
     ELSE /\ idx' = idx
          /\ links' = [links EXCEPT ![i].st = "returned"]
          /\ trace' = trace
  /\ UNCHANGED << registryVars, storeVars, mountVars, status, actualArgs, found, report,
                  parsedArgs, parsedFlags, parsedOptions, handlers >>

\* link i returns
LinkReturns(i) ==
  /\ status = "started" /\ Running(i)
  /\ links' = [links EXCEPT ![i].st = "returned"]
  /\ result' = Settle(i, Resolved)
  /\ UNCHANGED << registryVars, storeVars, mountVars, status, actualArgs, found, report,
                  parsedArgs, parsedFlags, parsedOptions, handlers, idx, trace >>

\* link i throws an error of its own
LinkThrows(i) ==
  /\ status = "started" /\ Running(i)
  /\ links' = [links EXCEPT ![i].st = "threw", ![i].err = ErrorOf(i)]
  /\ result' = Settle(i, Rejected(ErrorOf(i)))
  /\ UNCHANGED << registryVars, storeVars, mountVars, status, actualArgs, found, report,
                  parsedArgs, parsedFlags, parsedOptions, handlers, idx, trace >>

Awaiting(i) == i \in 1..(Len(links) - 1) /\ links[i].st = "awaiting"

\* the awaited next() of link i resolves: its post-next code runs
LinkResumes(i) ==
  /\ status = "started" /\ Awaiting(i)
  /\ links[i + 1].st = "returned"
  /\ links' = [links EXCEPT ![i].st = "running"]
  /\ trace' = Append(trace, << "resume", i >>)
  /\ UNCHANGED << registryVars, storeVars, mountVars, status, actualArgs, found, report, result,
                  parsedArgs, parsedFlags, parsedOptions, handlers, idx >>

\* the awaited next() of link i rejects and link i catches the error
LinkCatches(i) ==
  /\ status = "started" /\ Awaiting(i)
  /\ links[i + 1].st = "threw"
  /\ links' = [links EXCEPT ![i].st = "running"]
  /\ trace' = Append(trace, << "catch", i >>)
  /\ UNCHANGED << registryVars, storeVars, mountVars, status, actualArgs, found, report, result,
                  parsedArgs, parsedFlags, parsedOptions, handlers, idx >>

\* the awaited next() of link i rejects and link i does not catch the error
LinkPropagates(i) ==
  /\ status = "started" /\ Awaiting(i)
  /\ links[i + 1].st = "threw"
  /\ links' = [links EXCEPT ![i].st = "threw", ![i].err = links[i + 1].err]
  /\ result' = Settle(i, Rejected(links[i + 1].err))
  /\ UNCHANGED << registryVars, storeVars, mountVars, status, actualArgs, found, report,
                  parsedArgs, parsedFlags, parsedOptions, handlers, idx, trace >>

\* the run is over (settled, no link left running): the next run may start
RunOver ==
  /\ status = "started"
  /\ result.kind # "pending"
  /\ \A i \in 1..Len(links) : links[i].st \notin {"running", "awaiting"}
  /\ status' = "idle"
  /\ actualArgs' = << >>
  /\ found' = NoEntry
  /\ report' = NoReport
  /\ result' = Pending
  /\ parsedArgs' = EmptyObject
  /\ parsedFlags' = EmptyObject
  /\ parsedOptions' = EmptyObject
  /\ handlers' = << >>
  /\ idx' = 0
  /\ links' = << >>
  /\ trace' = << >>
  /\ variables' = FreshStore
  /\ journal' = NoJournal
  /\ UNCHANGED << registryVars, second, mountVars >>

LinkIds == 1..(MaxMiddlewares + 1)

Chain ==
  \/ \E i \in LinkIds, awaited \in BOOLEAN : LinkCallsNext(i, awaited)
  \/ \E i \in LinkIds, awaited, catches \in BOOLEAN :
       LinkCallsNextAgain(i, awaited, catches)
  \/ \E i \in LinkIds : LinkReturns(i)
  \/ \E i \in LinkIds : LinkThrows(i)
  \/ \E i \in LinkIds : LinkResumes(i)
  \/ \E i \in LinkIds : LinkCatches(i)
  \/ \E i \in LinkIds : LinkPropagates(i)

(***************************************************************************)
(* Patterns and arguments of the model.                                    *)
(***************************************************************************)
S_a == << "a" >>
S_b == << "b" >>
S_c == << "c" >>
S_v == << "v" >>
S_empty == << >>
S_a_b == << "a", " ", "b" >>
U_x == << "[", "x", "]" >>
U_yOpt == << "[", "y", "?", "]" >>
U_rest == << "[", ".", ".", ".", "r", "]" >>
U_flag == << "-", "-", "f", "f", "|", "-", "f" >>
U_opt == << "-", "-", "o", "o", "|", "-", "o", "=", "<", "s", ">" >>
U_gopt == << "-", "-", "g", "g", "|", "-", "g", "=", "<", "s", ">" >>
T_ff == << "-", "-", "f", "f" >>
T_o == << "-", "o" >>
T_g == << "-", "g" >>

\* a pattern string from its units
Pattern(units) == Join(units)

P_a == Pattern(<< S_a >>)
P_a_yOpt == Pattern(<< S_a, U_yOpt >>)
P_a_b_x == Pattern(<< S_a, S_b, U_x >>)
P_a_b_c == Pattern(<< S_a, S_b, S_c >>)
P_x == Pattern(<< U_x >>)
P_a_x_x == Pattern(<< S_a, U_x, U_x >>)
P_c == Pattern(<< S_c >>)
P_c_full == Pattern(<< S_c, U_x, U_yOpt, U_flag, U_opt >>)
P_c_rest == Pattern(<< S_c, U_x, U_rest, U_flag, U_opt >>)
P_gopt == Pattern(<< U_gopt >>)

HandlerId(k) == << "h", k >>
MiddlewareId(k) == << "m", k >>

(***************************************************************************)
(* Spec: registration at any time, runs with one command under up to       *)
(* MaxMiddlewares middleware, every behaviour of the links.                *)
(***************************************************************************)
ChainDefs == {P_a_b_x, P_a_x_x}
ChainPaths == {P_a, P_c}
ChainArgs == { << S_a, S_b, S_v >>, << S_a, S_b >>, << S_c >> }

\* registration happens before the runs that depend on it
Register ==
  /\ status = "idle"
  /\ \/ \E name \in ChainDefs :
          Command(name, HandlerId(Len(commands) + 1), MaxCommands)
     \/ \E path \in ChainPaths :
          Use(path, MiddlewareId(Len(middlewares) + 1), MaxMiddlewares)

Next ==
  \/ Register
  \/ \E a \in ChainArgs : Run(a)
  \/ Chain
  \/ RunOver

Spec == Init /\ [][Next]_vars

TypeOK ==
  /\ status \in {"idle", "started"}
  /\ result.kind \in {"pending", "resolved", "rejected"}
  /\ idx \in 0..Len(handlers)
  /\ Len(links) = Len(handlers)

(***************************************************************************)
(* The middleware chain (checked under Spec).                              *)
(***************************************************************************)
Count(seq, e) == Cardinality({k \in 1..Len(seq) : seq[k] = e})
IsPrefix(p, q) == Len(p) <= Len(q) /\ \A k \in 1..Len(p) : p[k] = q[k]
ChainStarted == status = "started" /\ Len(links) > 0
LastLink == Len(links)

\* every middleware so far awaited its continuation, at most once, and a
\* middleware that returned had called it
AwaitOnce ==
  \A i \in 1..(LastLink - 1) :
    /\ links[i].unawaited = 0
    /\ links[i].calls <= 1
    /\ (links[i].st = "returned" => links[i].calls = 1)
NoThrow == \A i \in 1..LastLink : links[i].st # "threw"

\* the code of the matched middleware and of the handler, in execution
\* order: what the handler does with its own continuation is left out
MwTrace ==
  SelectSeq(trace, LAMBDA e : e[1] = "enter" \/ (e[1] = "resume" /\ e[2] < LastLink))

\* pre-next code of m1..mk, the handler, post-next code of mk..m1
ExpectedOrder(n) ==
  [k \in 1..(2 * n - 1) |->
     IF k <= n THEN << "enter", k >> ELSE << "resume", 2 * n - k >>]

\* C2: when every matched middleware awaits its continuation exactly once
\* (and no link throws), the links execute in the order pre(m1) .. pre(mk),
\* handler, post(mk) .. post(m1); a middleware's post-next code runs only
\* after every inner link has returned, and at most one link runs at a time.
C2_OnionOrder ==
  (ChainStarted /\ AwaitOnce /\ NoThrow) =>
    /\ IsPrefix(MwTrace, ExpectedOrder(LastLink))
    /\ Cardinality({i \in 1..LastLink : links[i].st = "running"}) <= 1
    /\ \A i \in 1..(LastLink - 1) :
         Count(trace, << "resume", i >>) > 0 =>
           \A j \in (i + 1)..LastLink : links[j].st = "returned"
    /\ (result = Resolved => MwTrace = ExpectedOrder(LastLink))

C2_Witness ==
  /\ ChainStarted /\ AwaitOnce /\ NoThrow
  /\ LastLink = 3
  /\ result = Resolved
  /\ MwTrace = << << "enter", 1 >>, << "enter", 2 >>, << "enter", 3 >>,
                  << "resume", 2 >>, << "resume", 1 >> >>

\* C3: a second invocation of a link's continuation throws "next() called
\* multiple times" and starts nothing: every call after the first of a link
\* is a rejection, every link is invoked at most once, and the links
\* invoked are exactly the first idx handlers.
C3_NextOnlyOnce ==
  ChainStarted =>
    /\ \A i \in 1..LastLink :
         /\ Count(trace, << "enter", i >>) = (IF links[i].st = "idle" THEN 0 ELSE 1)
         /\ links[i].rejected = (links[i].calls >= 2)
         /\ (links[i].st = "idle") = (i > idx)
         /\ (links[i].st = "threw" /\ links[i].err = NextTwice =>
               \E j \in i..LastLink : links[j].calls >= 2)
    /\ Cardinality({k \in 1..Len(trace) : trace[k][1] = "enter"}) = idx

C3_Witness ==
  /\ ChainStarted /\ LastLink = 2
  /\ links[1].calls = 2
  /\ links[1].st = "threw" /\ links[1].err = NextTwice
  /\ result = Rejected(NextTwice)
  /\ links[2].st = "returned"

\* C4: a middleware that returns without invoking its continuation stops
\* the chain: no later link is ever invoked, and when the outer middleware
\* awaited their continuation and did not throw, the settled run has
\* resolved and every outer middleware has run its post-next code.
C4_ShortCircuit ==
  ChainStarted =>
    \A i \in 1..(LastLink - 1) :
      (links[i].st = "returned" /\ links[i].calls = 0) =>
        /\ \A j \in (i + 1)..LastLink :
             links[j].st = "idle" /\ Count(trace, << "enter", j >>) = 0
        /\ ( ( /\ result.kind # "pending"
               /\ \A j \in 1..(i - 1) :
                    links[j].unawaited = 0 /\ links[j].st # "threw" )
             => /\ result = Resolved
                /\ \A j \in 1..(i - 1) : Count(trace, << "resume", j >>) = 1 )

C4_Witness ==
  /\ ChainStarted /\ LastLink = 3
  /\ links[2].st = "returned" /\ links[2].calls = 0
  /\ links[1].st = "returned" /\ links[1].unawaited = 0
  /\ result = Resolved
  /\ trace = << << "enter", 1 >>, << "enter", 2 >>, << "resume", 1 >> >>

\* the innermost link j >= i from which the error held by link i comes:
\* every link from i to j threw that same error
Origin(i, j) ==
  /\ j \in i..LastLink
  /\ \A k \in i..j : links[k].st = "threw" /\ links[k].err = links[i].err
  /\ links[i].err \in {ErrorOf(j), NextTwice}

\* C5: an error thrown by a link travels outward through the awaiting
\* middleware: a middleware whose awaited continuation rejected never runs
\* its post-next code as a normal return, the promise of run() is rejected
\* exactly when the outermost link threw, with that link's error (an error
\* some link raised itself or the double-next error), and the links after
\* one that threw without calling its continuation are never invoked.
C5_ErrorPropagation ==
  ChainStarted =>
    /\ (links[1].st = "threw") = (result.kind = "rejected")
    /\ (links[1].st = "threw" => result = Rejected(links[1].err))
    /\ (links[1].st = "returned" => result = Resolved)
    /\ \A i \in 1..LastLink :
         links[i].st = "threw" => \E j \in i..LastLink : Origin(i, j)
    /\ \A i \in 1..(LastLink - 1) :
         /\ (links[i + 1].st = "threw" => Count(trace, << "resume", i >>) = 0)
         /\ (links[i].st = "threw" /\ ~links[i].called =>
               \A j \in (i + 1)..LastLink : links[j].st = "idle")

C5_Witness ==
  /\ ChainStarted /\ LastLink = 3
  /\ links[3].st = "threw" /\ links[3].err = "handler error"
  /\ links[2].st = "threw" /\ links[2].err = "handler error"
  /\ Count(trace, << "catch", 1 >>) = 1
  /\ links[1].st = "threw" /\ links[1].err = "mw error"
  /\ result = Rejected("mw error")

(***************************************************************************)
(* SpecRoute: up to MaxRouteCommands commands registered in any order,     *)
(* under global middleware, run on the argument lists of RouteArgs; the     *)
(* links of a resolved run await their continuation and return.            *)
(***************************************************************************)
RouteDefs == {P_a, P_a_yOpt, P_a_b_x, P_a_b_c, P_x}
RouteArgs ==
  { << >>, << S_a >>, << S_b >>, << S_a, S_b >>, << S_a, S_c >>,
    << S_a, S_b, S_c >>, << S_a_b >>, << S_a_b, S_c >> }
\* in SpecRoute a handler is identified by the pattern it is registered under
HandlerFor(name) == << "h", name >>

RegisterRoute ==
  /\ status = "idle"
  /\ \/ \E name \in RouteDefs :
          Command(name, HandlerFor(name), MaxRouteCommands)
     \/ Use(P_gopt, MiddlewareId(Len(middlewares) + 1), MaxGlobalMiddlewares)

NextRoute ==
  \/ RegisterRoute
  \/ \E a \in RouteArgs : Run(a)
  \/ \E i \in LinkIds : LinkCallsNext(i, TRUE)
  \/ \E i \in LinkIds : LinkReturns(i)
  \/ \E i \in LinkIds : LinkResumes(i)
  \/ RunOver

SpecRoute == Init /\ [][NextRoute]_vars

(***************************************************************************)
(* Routing (checked under SpecRoute).                                      *)
(***************************************************************************)
Registered == {commands[i].def : i \in 1..Len(commands)}
PositionOf(def) == CHOOSE i \in 1..Len(commands) : commands[i].def = def
NameLen(def) == Len(cmdNameParts(def))
\* the number of tokens of argv after the name path
Remaining(def) == Max(Len(actualArgs) - NameLen(def), 0)

\* the name path of def equals the first L tokens of argv, token by token
TokenMatch(def) ==
  /\ NameLen(def) > 0
  /\ NameLen(def) <= Len(actualArgs)
  /\ \A k \in 1..NameLen(def) : cmdNameParts(def)[k] = actualArgs[k]

\* the patterns the claim calls eligible
Eligible == {d \in Registered : TokenMatch(d) /\ requiredArgsCount(d) <= Remaining(d)}
Longest(ds) == {d \in ds : \A e \in ds : NameLen(e) <= NameLen(d)}

Candidates ==
  {d \in Registered : /\ NameLen(d) > 0
                      /\ NamePathMatches(d, actualArgs)
                      /\ ~SkippedForSub(commands, d, actualArgs)}
\* the first registered of the patterns ds of the greatest name-path length
FirstLongest(ds) ==
  LET top == Longest(ds)
  IN CHOOSE d \in top : \A e \in top : PositionOf(d) <= PositionOf(e)

C7_NoCommandNoHandler ==
  (status = "started" /\ ~\E d \in Registered : TokenMatch(d)) =>
    /\ report # NoReport
    /\ result = Resolved
    /\ handlers = << >> /\ trace = << >>

\* C8 as stated: when every registered pattern of the longest name path
\* matching argv has more required positionals than there are remaining
\* tokens, run() reports the missing argument of such a pattern and
\* invokes no handler.
C8_LongestMissingReported ==
  LET matching == {d \in Registered : TokenMatch(d)}
  IN ( /\ status = "started"
       /\ matching # {}
       /\ \A d \in Longest(matching) : requiredArgsCount(d) > Remaining(d) )
     => /\ report.kind = "missing"
        /\ report.def \in Longest(matching)
        /\ handlers = << >> /\ trace = << >>

(***************************************************************************)
(* SpecParse: a command with positionals, a flag and an option, with or    *)
(* without a variadic, or with one positional named like a method that     *)
(* every object inherits, under global middleware that declares an option  *)
(* of its own, run on every list of up to MaxParseRest tokens after the    *)
(* name.                                                                   *)
(***************************************************************************)
U_valueOf == << "[", "v", "a", "l", "u", "e", "O", "f", "]" >>
P_c_valueOf == Pattern(<< S_c, U_valueOf >>)
ParseDefs == {P_c_full, P_c_rest, P_c_valueOf}
ParseTokens == {S_v, S_empty, T_ff, T_o, T_g}
ParseArgs ==
  {<< S_c >> \o rest : rest \in UNION {[1..n -> ParseTokens] : n \in 0..MaxParseRest}}

RegisterParse ==
  /\ status = "idle"
  /\ \/ \E name \in ParseDefs : Command(name, HandlerFor(name), MaxCommands)
     \/ Use(P_gopt, MiddlewareId(Len(middlewares) + 1), MaxGlobalMiddlewares)

NextParse ==
  \/ RegisterParse
  \/ \E a \in ParseArgs : Run(a)
  \/ \E i \in LinkIds : LinkCallsNext(i, TRUE)
  \/ \E i \in LinkIds : LinkReturns(i)
  \/ \E i \in LinkIds : LinkResumes(i)
  \/ RunOver

SpecParse == Init /\ [][NextParse]_vars

(***************************************************************************)
(* Positional and variadic arguments (checked under SpecParse).            *)
(***************************************************************************)
\* the bracket units of a pattern, in declaration order
BracketUnits(def) == SelectSeq(Split(def), LAMBDA u : StartsWith(u, << "[" >>))
UnitName(u) == SelectSeq(u, LAMBDA ch : ch \notin {"[", "]", ".", "?"})
UnitVariadic(u) == StartsWith(u, << "[" >> \o Dots)
UnitOptional(u) == EndsWith(u, << "?", "]" >>)
UnitRequired(u) == ~UnitVariadic(u) /\ ~UnitOptional(u)
\* of a sequence of bracket units: the positionals declared before the
\* variadic, the names of the required positionals, the variadic
Positionals(units) == SelectSeq(units, LAMBDA u : ~UnitVariadic(u))
RequiredNames(units) ==
  {UnitName(units[i]) : i \in {j \in 1..Len(units) : UnitRequired(units[j])}}
HasVariadic(units) == \E i \in 1..Len(units) : UnitVariadic(units[i])
VariadicName(units) ==
  UnitName(units[CHOOSE i \in 1..Len(units) : UnitVariadic(units[i])])
\* the index of the last required positional, 0 when there is none
LastRequiredIndex(units) ==
  LET req == {i \in 1..Len(units) : UnitRequired(units[i])}
  IN IF req = {} THEN 0 ELSE CHOOSE i \in req : \A j \in req : j <= i

\* the tokens of the run after the name path of the resolved pattern
Rest == SliceFrom(actualArgs, NameLen(found.def))
Plain(t) == ~StartsWith(t, Dash)
LinkInvoked == Len(handlers) > 0

\* C6 as stated: a run is handed to the chain only with a string for
\* every required positional of the resolved pattern; a run whose tokens
\* cannot cover the required positionals reports the missing argument,
\* resolves and invokes no link; a report of a missing argument names a
\* required positional, never an optional one or the variadic; and tokens
\* that are all plain, empty strings included, cover the required
\* positionals by their number.
C6_RequiredArgsPresent ==
  (status = "started" /\ found # NoEntry) =>
    LET units == BracketUnits(found.def)
        rest == Rest
    IN /\ (LinkInvoked => \A n \in RequiredNames(units) : arg(n).t = "string")
       /\ (Len(SelectSeq(rest, Plain)) < LastRequiredIndex(units) =>
             /\ report.kind = "missing" /\ report.def = found.def
             /\ result = Resolved
             /\ ~LinkInvoked /\ trace = << >>)
       /\ (report.kind = "missing" =>
             /\ report.def = found.def
             /\ report.arg \in RequiredNames(units)
             /\ arg(report.arg) = Undefined
             /\ result = Resolved /\ ~LinkInvoked)
       /\ ((\A i \in 1..Len(rest) : Plain(rest[i]))
           /\ Len(rest) >= LastRequiredIndex(units)
           => report = NoReport /\ LinkInvoked)

C6_Witness ==
  /\ status = "started"
  /\ found.def = P_c_rest
  /\ actualArgs = << S_c, T_ff, T_o, S_empty >>
  /\ report = [kind |-> "missing", def |-> P_c_rest, arg |-> << "x" >>]
  /\ result = Resolved
  /\ ~LinkInvoked

\* the tokens naming an option declared by the resolved command or by a
\* matched middleware
OptionTokens ==
  LET defs == mergedOptionDefs(found.def, matchedMiddlewares(middlewares, found.def))
  IN {DashDash \o defs[i].long : i \in 1..Len(defs)}
     \cup {Dash \o defs[i].short : i \in {j \in 1..Len(defs) : defs[j].short # NoShort}}
\* the qualifying tokens of rest: not dash-prefixed and not the value of the
\* option named by the token before them
RECURSIVE QualifyingFrom(_, _, _)
QualifyingFrom(rest, optionTokens, i) ==
  IF i > Len(rest) THEN << >>
  ELSE (IF Plain(rest[i]) /\ ~(i > 1 /\ rest[i - 1] \in optionTokens)
        THEN << rest[i] >> ELSE << >>)
       \o QualifyingFrom(rest, optionTokens, i + 1)
Qualifying == QualifyingFrom(Rest, OptionTokens, 1)

\* C9 as stated: for a pattern without variadic, the i-th qualifying token
\* is the value of the i-th declared positional, a positional without such
\* a token reads as undefined, and when the required positionals are
\* covered the handler runs however many tokens follow.
C9_PositionalsInOrder ==
  (status = "started" /\ found # NoEntry) =>
    LET units == BracketUnits(found.def)
        qualifying == Qualifying
    IN ~HasVariadic(units) =>
         /\ (LinkInvoked =>
               \A i \in 1..Len(units) :
                 arg(UnitName(units[i])) =
                   (IF i <= Len(qualifying) THEN Str(qualifying[i]) ELSE Undefined))
         /\ (Len(qualifying) >= LastRequiredIndex(units) =>
               report = NoReport /\ LinkInvoked)

\* C10 as stated: for a pattern with k positionals and a trailing variadic,
\* args of the variadic is the sequence of the qualifying tokens after the
\* first k, in argv order.
C10_VariadicCapturesRest ==
  (status = "started" /\ found # NoEntry /\ LinkInvoked) =>
    LET units == BracketUnits(found.def)
    IN HasVariadic(units) =>
         args(VariadicName(units)) = SliceFrom(Qualifying, Len(Positionals(units)))

(***************************************************************************)
(* Option values and the positional scanner (checked under SpecParse).     *)
(***************************************************************************)
\* the 0-based indexes of rest consumed as option values when rest is
\* scanned with the option definitions in force for the run
ConsumedInForce ==
  ScanOptions(mergedOptionDefs(found.def, matchedMiddlewares(middlewares, found.def)),
              Rest, 0, EmptyObject, {}).consumedIndexes
\* the 0-based indexes of rest that parseCommandArgs keeps as positional
\* tokens, and those of them that are bound to a positional or the variadic
KeptIndexes ==
  LET rest == Rest
      own == parseOptionsWithConsumed(found.def, rest).consumedIndexes
  IN {i \in 0..(Len(rest) - 1) : Plain(rest[i + 1]) /\ i \notin own}
BoundIndexes ==
  LET kept == KeptIndexes
      units == BracketUnits(found.def)
  IN IF HasVariadic(units) THEN kept
     ELSE {i \in kept : Cardinality({j \in kept : j < i}) < Len(units)}

\* C11 as stated: in a run handed to the chain, no index of argv consumed
\* as an option value, by an option of the command or of a matched
\* middleware, is bound to a positional or to the variadic.
C11_OptionValuesSkipped ==
  (status = "started" /\ found # NoEntry /\ LinkInvoked) =>
    ConsumedInForce \cap BoundIndexes = {}

(***************************************************************************)
(* SpecOption: one command with an optional positional, a flag and an      *)
(* option, with or without a global middleware that declares the same long *)
(* names with other short names, run on every list of up to MaxOptionRest  *)
(* tokens after the name.                                                  *)
(***************************************************************************)
MaxOptionRest == 3

U_flagE == << "-", "-", "f", "f", "|", "-", "e" >>
U_optP == << "-", "-", "o", "o", "|", "-", "p", "=", "<", "s", ">" >>
P_c_opt == Pattern(<< S_c, U_yOpt, U_flag, U_opt >>)
P_mw_clash == Pattern(<< U_flagE, U_optP >>)
T_ooEqV == << "-", "-", "o", "o", "=", "v" >>
T_oo == << "-", "-", "o", "o" >>
T_p == << "-", "p" >>
T_z == << "-", "z" >>
T_zz == << "-", "-", "z", "z" >>

OptionTokensUsed == {S_empty, T_ooEqV, T_oo, T_o, T_p, T_ff, T_z, T_zz}
OptionArgs ==
  {<< S_c >> \o rest :
     rest \in UNION {[1..n -> OptionTokensUsed] : n \in 0..MaxOptionRest}}

RegisterOption ==
  /\ status = "idle"
  /\ \/ Command(P_c_opt, HandlerFor(P_c_opt), MaxCommands)
     \/ Use(P_mw_clash, MiddlewareId(Len(middlewares) + 1), MaxGlobalMiddlewares)

\* the first link reads the parse and returns
NextOption ==
  \/ RegisterOption
  \/ \E a \in OptionArgs : Run(a)
  \/ \E i \in LinkIds : LinkReturns(i)
  \/ RunOver

SpecOption == Init /\ [][NextOption]_vars

(***************************************************************************)
(* Options (checked under SpecOption).                                     *)
(***************************************************************************)
\* the definitions in force for the run
OptionDefsInForce ==
  mergedOptionDefs(found.def, matchedMiddlewares(middlewares, found.def))
FlagDefsInForce ==
  mergedFlagDefs(found.def, matchedMiddlewares(middlewares, found.def))
MatchedPaths == MwPaths(matchedMiddlewares(middlewares, found.def))
\* the option and flag definitions written in the pattern of the resolved
\* command and in the paths of its matched middleware
DeclaredOptions ==
  LET all == FlatOptionDefs(<< found.def >> \o MatchedPaths)
  IN {all[k] : k \in 1..Len(all)}
DeclaredFlags ==
  LET all == FlatFlagDefs(<< found.def >> \o MatchedPaths)
  IN {all[k] : k \in 1..Len(all)}
\* the tokens that name definition d: --long, and -short when it has one
NameTokens(d) ==
  {DashDash \o d.long} \cup (IF d.short = NoShort THEN {} ELSE {Dash \o d.short})
\* the tokens that name long among the definitions declared: --long and
\* every -short declared for it
DeclaredTokens(declared, long) ==
  UNION {NameTokens(d) : d \in {e \in declared : e.long = long}}
\* token i of rest is an occurrence that yields a value for the option
\* long named by the tokens names
YieldsInline(rest, long, i) == StartsWith(rest[i], DashDash \o long \o << "=" >>)
YieldsNext(rest, names, i) ==
  rest[i] \in names /\ i < Len(rest) /\ Plain(rest[i + 1])
\* the value the option has after rest: that of its last yielding occurrence
ExpectedOption(rest, long, names) ==
  LET occ == {i \in 1..Len(rest) :
                YieldsInline(rest, long, i) \/ YieldsNext(rest, names, i)}
      last == CHOOSE i \in occ : \A j \in occ : j <= i
  IN IF occ = {} THEN Undefined
     ELSE IF YieldsInline(rest, long, last)
     THEN Str(SliceFrom(rest[last], Len(long) + 3))
     ELSE Str(rest[last + 1])

\* C12 as stated: for every declared option, option() is the value of its
\* last occurrence that yields one (--long=value by itself, --long or a
\* declared -s with a following token that does not start with a dash),
\* undefined when there is none, so that undeclared tokens give no option
\* a value; a flag token that follows an option name is parsed as a flag;
\* nothing is thrown.
C12_OptionGrammar ==
  (status = "started" /\ found # NoEntry /\ LinkInvoked) =>
    LET rest == Rest
        options == DeclaredOptions
        flags == DeclaredFlags
    IN /\ \A d \in options :
            option(d.long) =
              ExpectedOption(rest, d.long, DeclaredTokens(options, d.long))
       /\ \A f \in flags, i \in 2..Len(rest) :
            (/\ rest[i] = DashDash \o f.long
             /\ \E d \in options : rest[i - 1] \in NameTokens(d))
            => flag(f.long) = Bool(TRUE)
       /\ result.kind # "rejected"

\* the definitions the run would parse with if, of two definitions of one
\* long name, the one of the command were in force: those of the command,
\* then those of the matched middleware under names the command leaves free
Preferring(own, others) ==
  own \o SelectSeq(others, LAMBDA d : \A k \in 1..Len(own) : own[k].long # d.long)

\* C13 as stated: options and flags are parsed with the definitions of the
\* command and of the matched middleware together, the definition of the
\* command, short name included, being the one in force for a long name
\* that both declare.
C13_CommandDefsInForce ==
  (status = "started" /\ found # NoEntry /\ LinkInvoked) =>
    LET rest == Rest
        optionDefs == Preferring(extractOptionDefs(found.def).defs,
                                 FlatOptionDefs(MatchedPaths))
        flagDefs == Preferring(extractFlagDefs(found.def).defs,
                               FlatFlagDefs(MatchedPaths))
    IN /\ \A k \in 1..Len(optionDefs) :
            option(optionDefs[k].long) =
              ExpectedOption(rest, optionDefs[k].long, NameTokens(optionDefs[k]))
       /\ \A k \in 1..Len(flagDefs) :
            flag(flagDefs[k].long) =
              Bool(\E i \in 1..Len(rest) : rest[i] \in NameTokens(flagDefs[k]))

(***************************************************************************)
(* SpecMatch: commands whose literal tokens are a, a b, and a b around an  *)
(* argument, under middleware registered for a, a b, a b c, b and for no   *)
(* literal token at all.                                                   *)
(***************************************************************************)
P_a_b == Pattern(<< S_a, S_b >>)
P_b == Pattern(<< S_b >>)
P_a_x_b == Pattern(<< S_a, U_x, S_b >>)
MatchDefs == {P_a, P_a_b_x, P_a_x_b}
MatchPaths == {P_a, P_a_b, P_a_b_c, P_b, P_gopt}
MatchArgs == { << S_a >>, << S_a, S_b, S_v >>, << S_a, S_v, S_b >> }

RegisterMatch ==
  /\ status = "idle"
  /\ \/ \E name \in MatchDefs : Command(name, HandlerFor(name), MaxCommands)
     \/ \E path \in MatchPaths :
          Use(path, MiddlewareId(Len(middlewares) + 1), MaxMiddlewares)

NextMatch ==
  \/ RegisterMatch
  \/ \E a \in MatchArgs : Run(a)
  \/ \E i \in LinkIds : LinkReturns(i)
  \/ RunOver

SpecMatch == Init /\ [][NextMatch]_vars

(***************************************************************************)
(* Middleware matching (checked under SpecMatch).                          *)
(***************************************************************************)
\* the literal tokens of a pattern: its units that are names
Literals(pattern) == SelectSeq(Split(pattern), UnitIsName)
\* the handlers of the middleware whose literal tokens are a prefix of
\* those of def, in registration order
RECURSIVE PrefixMiddleware(_, _)
PrefixMiddleware(mws, def) ==
  IF Len(mws) = 0 THEN << >>
  ELSE (IF IsPrefix(Literals(mws[1].path), Literals(def))
        THEN << mws[1].handler >> ELSE << >>)
       \o PrefixMiddleware(Tail(mws), def)

\* C14: the chain of a resolved command is made of the middleware whose
\* literal tokens are a prefix of the literal tokens of the command
\* pattern, in registration order, followed by the handler of the command.
C14_MiddlewareMatch ==
  (status = "started" /\ found # NoEntry /\ LinkInvoked) =>
    handlers = PrefixMiddleware(middlewares, found.def) \o << found.handler >>

C14_Witness ==
  /\ status = "started"
  /\ found # NoEntry /\ found.def = P_a_x_b
  /\ Len(middlewares) = 2
  /\ middlewares[1].path = P_a_b_c
  /\ middlewares[2].path = P_a_b
  /\ handlers = << MiddlewareId(2), HandlerFor(P_a_x_b) >>

(***************************************************************************)
(* SpecFlag: the command of SpecOption, with or without a global           *)
(* middleware that redeclares its flag under another short name and        *)
(* declares a flag of its own, run on every list of up to MaxOptionRest    *)
(* tokens after the name.                                                  *)
(***************************************************************************)
U_flagH == << "-", "-", "h", "h" >>
P_mw_flags == Pattern(<< U_flagE, U_flagH >>)
T_f == << "-", "f" >>
T_e == << "-", "e" >>
T_hh == << "-", "-", "h", "h" >>

FlagTokensUsed == {S_v, T_ff, T_f, T_e, T_hh, T_o, T_z, T_zz}
FlagArgs ==
  {<< S_c >> \o rest :
     rest \in UNION {[1..n -> FlagTokensUsed] : n \in 0..MaxOptionRest}}

RegisterFlag ==
  /\ status = "idle"
  /\ \/ Command(P_c_opt, HandlerFor(P_c_opt), MaxCommands)
     \/ Use(P_mw_flags, MiddlewareId(Len(middlewares) + 1), MaxGlobalMiddlewares)

\* the first link reads the parse and returns
NextFlag ==
  \/ RegisterFlag
  \/ \E a \in FlagArgs : Run(a)
  \/ \E i \in LinkIds : LinkReturns(i)
  \/ RunOver

SpecFlag == Init /\ [][NextFlag]_vars

(***************************************************************************)
(* Flags (checked under SpecFlag).                                         *)
(***************************************************************************)
\* names a link may ask for: declared flags, a declared option, a declared
\* argument, names nobody declares, names every object inherits
QueriedNames ==
  { << "f", "f" >>, << "h", "h" >>, << "o", "o" >>, << "y" >>, << "z", "z" >>,
    << "f" >>, << "e" >> } \cup ObjectPrototypeKeys

\* C15 as stated: in a run handed to the chain, flag(n) is a boolean
\* exactly for the long names of the declared flags: true when a token
\* after the name path is --n or a -short declared for n, false otherwise;
\* for every other name it is undefined.
C15_FlagValues ==
  (status = "started" /\ found # NoEntry /\ LinkInvoked) =>
    LET rest == Rest
        flags == DeclaredFlags
        longs == {f.long : f \in flags}
    IN /\ \A n \in longs :
            flag(n) = Bool(\E i \in 1..Len(rest) : rest[i] \in DeclaredTokens(flags, n))
       /\ \A n \in QueriedNames \ longs : flag(n) = Undefined

(***************************************************************************)
(* Undeclared option names (checked under SpecOption).                     *)
(***************************************************************************)
\* C16 as stated: in a run handed to the chain, option(n) is undefined for
\* every name n that is not the long name of an option declared by the
\* command or by a matched middleware, the names that every object
\* inherits included.
C16_UndeclaredOptionUndefined ==
  (status = "started" /\ found # NoEntry /\ LinkInvoked) =>
    \A n \in QueriedNames \ {d.long : d \in DeclaredOptions} : option(n) = Undefined

(***************************************************************************)
(* The Variables Store: context.set and context.get, and a second run()    *)
(* on the same instance while the first one is in progress.                *)
(***************************************************************************)
\* the keys and values the links use; a value tells the run that set it
StoreKeys == { << "k" >>, ProtoKey }
StoreValues(run) ==
  IF run = 1 THEN { Str(<< "x", "1" >>), Str(<< "y", "1" >>) }
  ELSE { Str(<< "x", "2" >>) }
\* the journal entry of key k becomes v; the journal keeps the last get
\* until the next set
Put(f, k, v) == [x \in (DOMAIN f) \cup {k} |-> IF x = k THEN v ELSE f[x]]

\* link i calls c.set(key, value): variables[key] = value
Set(i, key, value) ==
  /\ status = "started" /\ Running(i)
  /\ variables' = SetProp(variables, key, value)
  /\ journal' = [written |-> Put(journal.written, key,
                                  [value |-> value, link |-> i]),
                 got |-> NoGot]
  /\ UNCHANGED << registryVars, mountVars, runVars, second >>

\* link i calls c.get(key): return variables[key]
Get(i, key) ==
  /\ status = "started" /\ Running(i)
  /\ journal' = [journal EXCEPT
                   !.got = [run |-> 1, link |-> i, key |-> key,
                            value |-> Prop(variables, key)]]
  /\ UNCHANGED << registryVars, mountVars, runVars, variables, second >>

\* run() is called once more, on a registered command, while the run
\* modelled above is idle, in progress or suspended; of that second run
\* only its variables object is modelled
SecondRun ==
  /\ second.status = "idle"
  /\ Len(commands) > 0
  /\ second' = [status |-> "started", variables |-> FreshStore,
                written |-> EmptyObject]
  /\ UNCHANGED << registryVars, mountVars, runVars, variables, journal >>

\* a link of the second run calls c.set(key, value)
SecondSet(key, value) ==
  /\ second.status = "started"
  /\ second' = [second EXCEPT
                  !.variables = SetProp(@, key, value),
                  !.written = Put(@, key, [value |-> value, link |-> 0])]
  /\ journal' = [journal EXCEPT !.got = NoGot]
  /\ UNCHANGED << registryVars, mountVars, runVars, variables >>

\* a link of the second run calls c.get(key)
SecondGet(key) ==
  /\ second.status = "started"
  /\ journal' = [journal EXCEPT
                   !.got = [run |-> 2, link |-> 0, key |-> key,
                            value |-> Prop(second.variables, key)]]
  /\ UNCHANGED << registryVars, mountVars, runVars, variables, second >>

\* the second run is over
SecondOver ==
  /\ second.status = "started"
  /\ second' = NoSecond
  /\ journal' = IF journal.got.run = 2 THEN [journal EXCEPT !.got = NoGot]
                ELSE journal
  /\ UNCHANGED << registryVars, mountVars, runVars, variables >>

(***************************************************************************)
(* SpecStore: one command under up to MaxMiddlewares middleware; every     *)
(* running link sets and gets, and a second run does so in between.        *)
(***************************************************************************)
RegisterStore ==
  /\ status = "idle"
  /\ \/ Command(P_c, HandlerFor(P_c), MaxCommands)
     \/ Use(P_c, MiddlewareId(Len(middlewares) + 1), MaxMiddlewares)

NextStore ==
  \/ RegisterStore
  \/ Run(<< S_c >>)
  \/ \E i \in LinkIds : LinkCallsNext(i, TRUE)
  \/ \E i \in LinkIds : LinkReturns(i)
  \/ \E i \in LinkIds : LinkResumes(i)
  \/ RunOver
  \/ \E i \in LinkIds, key \in StoreKeys, value \in StoreValues(1) : Set(i, key, value)
  \/ \E i \in LinkIds, key \in StoreKeys : Get(i, key)
  \/ SecondRun
  \/ \E key \in StoreKeys, value \in StoreValues(2) : SecondSet(key, value)
  \/ \E key \in StoreKeys : SecondGet(key)
  \/ SecondOver

SpecStore == Init /\ [][NextStore]_vars

(***************************************************************************)
(* The Variables Store (checked under SpecStore).                          *)
(***************************************************************************)
\* what the run of the last get has set so far
WrittenBy(run) == IF run = 1 THEN journal.written ELSE second.written

\* C17: get never returns a value that another run has set, be the other
\* run in progress at the same time or over; a key that the run of the
\* get has not set reads as it does in an empty store.
C17_StorePerRun ==
  journal.got.run # 0 =>
    /\ journal.got.value \notin StoreValues(3 - journal.got.run)
    /\ (journal.got.key \notin DOMAIN WrittenBy(journal.got.run)
          => journal.got.value = Prop(EmptyObject, journal.got.key))

C17_Witness ==
  /\ status = "started"
  /\ second.status = "started"
  /\ << "k" >> \in DOMAIN second.written
  /\ journal.got.run = 1
  /\ journal.got.key = << "k" >>
  /\ journal.got.value = Undefined
  /\ \E i \in 1..Len(links) : links[i].st = "awaiting"

\* C18 as stated: within one run, get(k) returns the value that the last
\* set(k, v) of the run stored, whichever link set it and whichever link
\* reads it afterwards.
C18_SetThenGet ==
  (journal.got.run = 1 /\ journal.got.key \in DOMAIN journal.written) =>
    journal.got.value = journal.written[journal.got.key].value


(***************************************************************************)
(* Cli.mount: the commands of another instance copied under a prefix.      *)
(***************************************************************************)
MaxSubCommands == 2
MaxMounted == 2
MaxMountRest == 2

\* the pattern with the prefix after it instead of before it
newDefAppended(prefix, def) ==
  IF prefix # << >> THEN def \o << " " >> \o prefix ELSE def

\* const newDef = prefix ? `${prefix} ${def}` : def
newDef(prefix, def) ==
  IF prefix # << >> THEN prefix \o << " " >> \o def ELSE def

\* for (const [def, entry] of subCli.commands)
\*   this.commands.set(newDef, { ...entry, def: newDef })
RECURSIVE MountLoop(_, _, _, _)
MountLoop(cmds, prefix, subCommands, i) ==
  IF i > Len(subCommands) THEN cmds
  ELSE MountLoop(MapSet(cmds, newDef(prefix, subCommands[i].def),
                        [subCommands[i] EXCEPT
                           !.def = newDef(prefix, subCommands[i].def)]),
                 prefix, subCommands, i + 1)

mount(cmds, prefix, subCommands) == MountLoop(cmds, prefix, subCommands, 1)

\* the commands that a call on parent leaves in parent
Remember(parent, cmds) ==
  IF parent \in Parents THEN [mounted EXCEPT ![parent] = cmds] ELSE mounted

\* a mount that also takes the middlewares of the instance it is given
MountWithMiddlewares(prefix, s) ==
  /\ Len(mount(commands, prefix, subs[s].commands)) <= MaxMounted
  /\ commands' = mount(commands, prefix, subs[s].commands)
  /\ thrown' = NoError
  /\ mounted' = Remember("root", commands')
  /\ middlewares' = middlewares \o subs[s].middlewares
  /\ UNCHANGED << runVars, storeVars, subs >>

\* cli.mount(prefix, subs[s]) on the instance that runs
Mount(prefix, s) ==
  /\ Len(mount(commands, prefix, subs[s].commands)) <= MaxMounted
  /\ commands' = mount(commands, prefix, subs[s].commands)
  /\ thrown' = NoError
  /\ mounted' = Remember("root", commands')
  /\ UNCHANGED << middlewares, runVars, storeVars, subs >>

\* subs[parent].mount(prefix, subs[s])
SubMount(parent, prefix, s) ==
  /\ parent # s
  /\ Len(mount(subs[parent].commands, prefix, subs[s].commands)) <= MaxMounted
  /\ subs' = [subs EXCEPT ![parent].commands =
                mount(@, prefix, subs[s].commands)]
  /\ thrown' = NoError
  /\ mounted' = Remember(parent, subs'[parent].commands)
  /\ UNCHANGED << commands, middlewares, runVars, storeVars >>

\* a command() call on subs[s] that shows through the instance that runs,
\* as it would if mount kept a reference to the instance it was given
SubCommandLive(s, name, handler, cap) ==
  /\ (Len(subs[s].commands) < cap
        \/ \E i \in 1..Len(subs[s].commands) : subs[s].commands[i].def = name)
  /\ thrown' = commandError(name)
  /\ subs' = IF thrown' = NoError
             THEN [subs EXCEPT ![s].commands =
                     MapSet(@, name, [def |-> name, handler |-> handler])]
             ELSE subs
  /\ mounted' = Remember(s, subs'[s].commands)
  /\ commands' = IF commands # << >>
                 THEN [i \in 1..Len(commands) |->
                         [commands[i] EXCEPT !.handler = handler]]
                 ELSE commands
  /\ UNCHANGED << middlewares, runVars, storeVars >>

\* subs[s].command(name, handler)
SubCommand(s, name, handler, cap) ==
  /\ (Len(subs[s].commands) < cap
        \/ \E i \in 1..Len(subs[s].commands) : subs[s].commands[i].def = name)
  /\ thrown' = commandError(name)
  /\ subs' = IF thrown' = NoError
             THEN [subs EXCEPT ![s].commands =
                     MapSet(@, name, [def |-> name, handler |-> handler])]
             ELSE subs
  /\ mounted' = Remember(s, subs'[s].commands)
  /\ UNCHANGED << commands, middlewares, runVars, storeVars >>

\* subs[s].use(path, handler)
SubUse(s, path, handler, cap) ==
  /\ Len(subs[s].middlewares) < cap
  /\ thrown' = useError(path)
  /\ subs' = IF thrown' = NoError
             THEN [subs EXCEPT ![s].middlewares =
                     Append(@, [path |-> path, handler |-> handler])]
             ELSE subs
  /\ UNCHANGED << commands, middlewares, runVars, storeVars, mounted >>

(***************************************************************************)
(* SpecMount: inner gets commands and a middleware, inner is mounted into  *)
(* mid, mid is mounted into the instance that runs, in any order and any   *)
(* number of times.                                                        *)
(***************************************************************************)
S_p == << "p" >>
S_q == << "q" >>
P_a_opts == Pattern(<< S_a, U_yOpt, U_flag, U_opt >>)
P_a_b_rest == Pattern(<< S_a, S_b, U_rest >>)
P_hh == Pattern(<< U_flagH >>)
InnerDefs == {P_a_opts, P_a_b_rest}
InnerPaths == {P_hh}
RootPrefixes == {S_p}
MidPrefixes == {S_q}
\* a handler that replaces the one first registered for a pattern
ReplacedHandlerFor(name) == << "h2", name >>
InnerHandlers(name) ==
  IF name = P_a_opts THEN {HandlerFor(name), ReplacedHandlerFor(name)}
  ELSE {HandlerFor(name)}

\* the tokens a prefix puts in front of argv
PrefixTokens(prefix) == IF prefix = << >> THEN << >> ELSE << prefix >>

MountTokens == {S_v, T_f, T_hh, T_ooEqV}
MountNamePaths == { << >>, << S_a >>, << S_a, S_b >> }
MountRests ==
  UNION { [1..n -> MountTokens] : n \in 0..MaxMountRest }
MountArgs ==
  { PrefixTokens(p) \o PrefixTokens(q) \o path \o rest :
      p \in RootPrefixes, q \in MidPrefixes,
      path \in MountNamePaths, rest \in MountRests }

RegisterMount ==
  /\ status = "idle"
  /\ \/ \E name \in InnerDefs : \E handler \in InnerHandlers(name) :
          SubCommand("inner", name, handler, MaxSubCommands)
     \/ \E path \in InnerPaths :
          SubUse("inner", path, MiddlewareId(1), MaxGlobalMiddlewares)
     \/ \E q \in MidPrefixes : SubMount("mid", q, "inner")
     \/ \E p \in RootPrefixes : Mount(p, "mid")

NextMount ==
  \/ RegisterMount
  \/ \E a \in MountArgs : Run(a)
  \/ \E i \in LinkIds : LinkReturns(i)
  \/ RunOver

SpecMount == Init /\ [][NextMount]_vars

(***************************************************************************)
(* mount (checked under SpecMount).                                        *)
(***************************************************************************)
\* C19: mount is a value copy: the commands of an instance are those its own
\* last command() or mount() call left; later command() and mount() calls
\* on the instance that was mounted into it change neither its patterns nor
\* the handlers they invoke.
C19_MountIsValueCopy ==
  /\ commands = mounted["root"]
  /\ subs["mid"].commands = mounted["mid"]

\* a run through the mounted pattern invokes the handler of mount time,
\* after that handler was replaced in inner and mid and a pattern was added
C19_Witness ==
  /\ status = "started"
  /\ actualArgs = << S_p, S_q, S_a >>
  /\ found.def = newDef(S_p, newDef(S_q, P_a_opts))
  /\ found.handler = HandlerFor(P_a_opts)
  /\ handlers = << HandlerFor(P_a_opts) >>
  /\ Len(commands) = 1
  /\ Len(subs["mid"].commands) = 2
  /\ \E i \in 1..Len(subs["mid"].commands) :
       /\ subs["mid"].commands[i].def = newDef(S_q, P_a_opts)
       /\ subs["mid"].commands[i].handler = ReplacedHandlerFor(P_a_opts)

\* inner was mounted into mid under q, then mid into the instance that runs
\* under p, and the three hold nothing else
ChainMounted(p, q) ==
  /\ subs["inner"].commands # << >>
  /\ subs["mid"].commands = mount(<< >>, q, subs["inner"].commands)
  /\ commands = mount(<< >>, p, subs["mid"].commands)

NotRun ==
  [ran |-> FALSE, def |-> NoDef, handler |-> "none", args |-> EmptyObject,
   flags |-> EmptyObject, options |-> EmptyObject]

\* what inner.run(rest) hands to the handler it invokes, when the
\* middleware of inner is mws
Direct(rest, mws) ==
  LET r == Route(subs["inner"].commands, rest)
      def == r.found.def
      restArgs == SliceFrom(rest, Len(cmdNameParts(def)))
      matched == matchedMiddlewares(mws, def)
      pArgs == parseCommandArgs(def, restArgs)
  IN IF r.found = NoEntry THEN NotRun
     ELSE IF ExtractError(def, matched) # NoError THEN NotRun
     ELSE IF validateArgs(def, pArgs).err # NoError THEN NotRun
     ELSE [ran |-> TRUE, def |-> def, handler |-> r.found.handler,
           args |-> pArgs,
           flags |-> parseFlagsMerged(mergedFlagDefs(def, matched), restArgs),
           options |-> parseOptionsMerged(mergedOptionDefs(def, matched),
                                          restArgs)]

\* the run in progress was given p, q and then the arguments of a run that
\* invokes a handler directly in inner: it invokes the same handler with
\* the same values
SameAsDirect(mws) ==
  \A p \in RootPrefixes, q \in MidPrefixes :
    ( /\ status = "started"
      /\ ChainMounted(p, q)
      /\ Len(actualArgs) >= 2
      /\ Slice(actualArgs, 0, 2) = PrefixTokens(p) \o PrefixTokens(q) ) =>
      LET d == Direct(SliceFrom(actualArgs, 2), mws)
      IN d.ran =>
           /\ found.def = newDef(p, newDef(q, d.def))
           /\ handlers = << d.handler >>
           /\ parsedArgs = d.args
           /\ \A n \in QueriedNames :
                /\ flag(n) = OwnProp(d.flags, n)
                /\ option(n) = Prop(d.options, n)

K_constructor == << "c", "o", "n", "s", "t", "r", "u", "c", "t", "o", "r" >>
U_xOpt == << "[", "x", "?", "]" >>
U_ctor == << "[" >> \o K_constructor \o << "]" >>
U_ctorOpt == << "[" >> \o K_constructor \o << "?", "]" >>
U_flagCtor == DashDash \o K_constructor
U_optF == << "-", "-", "o", "o", "|", "-", "f", "=", "<", "s", ">" >>
U_optOo == << "-", "-", "o", "o", "=", "<", "s", ">" >>
U_bang == << "!" >>

D_dupArg == Pattern(<< S_c, U_x, U_x >>)
D_dupArgOpt == Pattern(<< S_c, U_x, U_xOpt >>)
D_dupShort == Pattern(<< S_c, U_flag, U_optF >>)
D_dupFlag == Pattern(<< S_c, T_ff, T_ff >>)
D_both == Pattern(<< S_c, T_oo, U_optOo >>)
D_reservedArg == Pattern(<< S_c, U_ctor >>)
D_reservedOpt == Pattern(<< S_c, U_ctorOpt >>)
D_reservedFlag == Pattern(<< S_c, U_flagCtor >>)
D_variadic == Pattern(<< S_c, U_rest, U_x >>)
D_syntax == Pattern(<< S_c, U_bang >>)
M_dupFlag == Pattern(<< T_ff, T_ff >>)
M_reserved == Pattern(<< U_flagCtor >>)

DefinePatterns ==
  {P_c, D_dupArg, D_dupArgOpt, D_dupShort, D_dupFlag, D_both, D_reservedArg,
   D_reservedOpt, D_reservedFlag, D_variadic, D_syntax}
DefinePaths == {P_hh, M_dupFlag, M_reserved, P_x}
DefineArgs == { << S_c >>, << S_c, S_v >> }

RegisterDefine ==
  /\ status = "idle"
  /\ \/ \E name \in DefinePatterns : Command(name, HandlerFor(name), MaxCommands)
     \/ \E path \in DefinePaths :
          Use(path, MiddlewareId(Len(middlewares) + 1), MaxGlobalMiddlewares)

NextDefine ==
  \/ RegisterDefine
  \/ \E a \in DefineArgs : Run(a)
  \/ \E i \in LinkIds : LinkCallsNext(i, TRUE)
  \/ \E i \in LinkIds : LinkReturns(i)
  \/ \E i \in LinkIds : LinkResumes(i)
  \/ RunOver

SpecDefine == Init /\ [][NextDefine]_vars

(***************************************************************************)
(* Definition errors (checked under SpecDefine).                           *)
(***************************************************************************)
\* C21 as stated: no run rejects; the patterns that command() and use()
\* accepted never make run() throw (no link of SpecDefine throws).
C21_RunNeverRejects ==
  status = "started" => result.kind # "rejected"

\* the identifier names of a pattern, read off its units: a bracket unit
\* names an argument (brackets, "..." and "?" removed); a unit that starts
\* with "--" names a flag, or an option when it holds "=", by a long name
\* and, after "|-", a short name
DashUnits(def) == SelectSeq(Split(def), LAMBDA u : StartsWith(u, DashDash))
LongOf(u) ==
  LET body == SliceFrom(u, 2)
      ends == {k \in 1..Len(body) : body[k] \in {"|", "="}}
  IN IF ends = {} THEN body
     ELSE Slice(body, 0, (CHOOSE k \in ends : \A j \in ends : k <= j) - 1)
ShortOf(u) ==
  IF IndexOf(u, "|") = -1 THEN NoShort ELSE << u[IndexOf(u, "|") + 3] >>
ArgNamesOf(def) ==
  [i \in 1..Len(BracketUnits(def)) |-> UnitName(BracketUnits(def)[i])]
LongsOf(def) == [i \in 1..Len(DashUnits(def)) |-> LongOf(DashUnits(def)[i])]
ShortsOf(def) ==
  LET shorts == [i \in 1..Len(DashUnits(def)) |-> ShortOf(DashUnits(def)[i])]
  IN SelectSeq(shorts, LAMBDA x : x # NoShort)
NamesOf(def) == ArgNamesOf(def) \o LongsOf(def)

\* C22 as stated: in every stored pattern no two bracket units share an
\* argument name, and no two flags or options share a long name or a short
\* name, a flag and an option included.
C22_DistinctNames ==
  \A i \in 1..Len(commands) :
    /\ ~HasDuplicate(ArgNamesOf(commands[i].def))
    /\ ~HasDuplicate(LongsOf(commands[i].def))
    /\ ~HasDuplicate(ShortsOf(commands[i].def))

\* C23 as stated: no stored pattern has an argument, a flag or an option
\* named by a reserved word.
C23_NoReservedNames ==
  \A i \in 1..Len(commands) :
    \A k \in 1..Len(NamesOf(commands[i].def)) :
      NamesOf(commands[i].def)[k] \notin RESERVED_NAMES


(***************************************************************************)
(* SpecPlace: a command with positionals, a flag and an option, with or    *)
(* without a variadic, under global middleware that declares the same long *)
(* names, run on every list of up to MaxPlaceRest positional tokens, flag  *)
(* tokens and option tokens after the name.                                *)
(***************************************************************************)
MaxPlaceRest == 3
PlaceDefs == {P_c_full, P_c_rest}
PlaceTokens == {S_v, S_empty, T_ff, T_o}
PlaceArgs ==
  {<< S_c >> \o rest : rest \in UNION {[1..n -> PlaceTokens] : n \in 0..MaxPlaceRest}}

RegisterPlace ==
  /\ status = "idle"
  /\ \/ \E name \in PlaceDefs : Command(name, HandlerFor(name), MaxCommands)
     \/ Use(P_mw_clash, MiddlewareId(Len(middlewares) + 1), MaxGlobalMiddlewares)

NextPlace ==
  \/ RegisterPlace
  \/ \E a \in PlaceArgs : Run(a)
  \/ \E i \in LinkIds : LinkReturns(i)
  \/ RunOver

SpecPlace == Init /\ [][NextPlace]_vars

(***************************************************************************)
(* Placement of flags and options (checked under SpecPlace).               *)
(***************************************************************************)
\* the tokens that name the flags and the options declared by the pattern
OwnFlagTokens(def) ==
  UNION {NameTokens(extractFlagDefs(def).defs[k]) :
           k \in 1..Len(extractFlagDefs(def).defs)}
OwnOptionTokens(def) ==
  UNION {NameTokens(extractOptionDefs(def).defs[k]) :
           k \in 1..Len(extractOptionDefs(def).defs)}

\* rest read from token i on as positional tokens, tokens of declared flags
\* and pairs of a declared option and its value: the positional tokens,
\* the tokens of the flags and pairs, each in argv order
RECURSIVE Placed(_, _, _, _)
Placed(rest, flagTokens, optionTokens, i) ==
  IF i > Len(rest) THEN [ok |-> TRUE, positionals |-> << >>, others |-> << >>]
  ELSE IF rest[i] \in flagTokens
  THEN LET t == Placed(rest, flagTokens, optionTokens, i + 1)
       IN [t EXCEPT !.others = << rest[i] >> \o @]
  ELSE IF rest[i] \in optionTokens /\ i < Len(rest) /\ Plain(rest[i + 1])
  THEN LET t == Placed(rest, flagTokens, optionTokens, i + 2)
       IN [t EXCEPT !.others = << rest[i], rest[i + 1] >> \o @]
  ELSE IF Plain(rest[i])
  THEN LET t == Placed(rest, flagTokens, optionTokens, i + 1)
       IN [t EXCEPT !.positionals = << rest[i] >> \o @]
  ELSE [ok |-> FALSE, positionals |-> << >>, others |-> << >>]

DistinctNamePaths(cmds) ==
  \A i, j \in 1..Len(cmds) :
    i # j => cmdNameParts(cmds[i].def) # cmdNameParts(cmds[j].def)
\* the same entries registered in every order
Reorderings(cmds) ==
  {[i \in 1..Len(cmds) |-> cmds[f[i]]] : f \in Permutations(1..Len(cmds))}
\* what run(argv) resolves or reports on the commands cmds
OutcomeOf(cmds, argv) ==
  LET Of(r) ==
        [found |-> r.found,
         report |-> IF r.found = NoEntry
                    THEN NotFoundReport(cmds, argv, r.missingArgsDef)
                    ELSE NoReport]
  IN Of(Route(cmds, argv))

\* C25 as stated: when the registered patterns have pairwise distinct name
\* paths, the entry that the run resolved, or the report it made when it
\* resolved none, is the same for every order of registration.
C25_OrderIndependent ==
  (status = "started" /\ DistinctNamePaths(commands)) =>
    \A cmds \in Reorderings(commands) :
      /\ OutcomeOf(cmds, actualArgs).found = found
      /\ found = NoEntry => OutcomeOf(cmds, actualArgs).report = report

(***************************************************************************)
(* Failed registrations (checked under SpecDefine).                        *)
(***************************************************************************)
\* C27: a step after which a definition error stands thrown, the throwing
\* command() or use() call included, leaves the commands and the middlewares
\* as they were, so the runs that follow read the registry of before the call.
C27_ThrowLeavesRegistry ==
  [][thrown' # NoError =>
       (commands' = commands /\ middlewares' = middlewares)]_vars

\* a run that started after a call threw on a registry that holds a command
\* and a middleware
C27_Witness ==
  /\ thrown # NoError
  /\ status = "started"
  /\ Len(commands) >= 1
  /\ Len(middlewares) >= 1

(***************************************************************************)
(* SpecKey: commands with positional, optional and variadic arguments, run *)
(* on every list of up to MaxKeyRest value tokens.                         *)
(***************************************************************************)
MaxKeyRest == 3
U_restOpt == << "[", ".", ".", ".", "r", "?", "]" >>
P_a_x_yOpt == Pattern(<< S_a, U_x, U_yOpt >>)
P_b_x_rest == Pattern(<< S_b, U_x, U_rest >>)
P_c_x_restOpt == Pattern(<< S_c, U_x, U_restOpt >>)
KeyDefs == {P_a_x_yOpt, P_b_x_rest, P_c_x_restOpt}
KeyTokens == {S_v, S_empty}
KeyArgs ==
  {<< name >> \o rest :
     name \in {S_a, S_b, S_c},
     rest \in UNION {[1..n -> KeyTokens] : n \in 0..MaxKeyRest}}

RegisterKey ==
  /\ status = "idle"
  /\ \/ \E name \in KeyDefs : Command(name, HandlerFor(name), MaxCommands)
     \/ Use(P_hh, MiddlewareId(Len(middlewares) + 1), MaxGlobalMiddlewares)

NextKey ==
  \/ RegisterKey
  \/ \E a \in KeyArgs : Run(a)
  \/ \E i \in LinkIds : LinkReturns(i)
  \/ RunOver

SpecKey == Init /\ [][NextKey]_vars

\* the names that extractArgMetadata and validateArgs use for the bracket
\* units of a pattern
MetadataNames(def) ==
  {extractArgMetadata(def)[i].name : i \in 1..Len(extractArgMetadata(def))}

\* C28 as stated: every key under which the run stored a positional or a
\* variadic value is the name that extractArgMetadata gives to a bracket unit
\* of the command, and the values that follow the positionals of a command
\* with a variadic unit are what args() returns for the name of that unit.
C28_KeyIsName ==
  status = "started" =>
    /\ DOMAIN parsedArgs \subseteq MetadataNames(found.def)
    /\ \A i \in 1..Len(extractArgMetadata(found.def)) :
         IsVariadicMatch(MatchBrackets(found.def)[i]) =>
           args(extractArgMetadata(found.def)[i].name)
             = SliceFrom(SliceFrom(actualArgs, Len(cmdNameParts(found.def))), i - 1)

(***************************************************************************)
(* SpecUnits: patterns whose flag and option units stand among literal and *)
(* bracket units that contain dashes.                                      *)
(***************************************************************************)
S_aDashes == << "a", "-", "-", "b", "b" >>
U_xDashes == << "[", "x", "-", "-", "y", "y", "]" >>
U_flagDashes == << "-", "-", "a", "-", "-", "b" >>
P_c_flag_opt == Pattern(<< S_c, U_flag, U_opt >>)
P_c_opt_flag == Pattern(<< S_c, U_opt, U_flag, U_flagH >>)
P_c_flagDashes == Pattern(<< S_c, U_flagDashes >>)
P_c_aDashes == Pattern(<< S_c, S_aDashes >>)
P_c_xDashes == Pattern(<< S_c, U_xDashes >>)
UnitsDefs == {P_c, P_c_flag_opt, P_c_opt_flag, P_c_flagDashes, P_c_aDashes,
              P_c_xDashes}
UnitsPaths == {P_hh, P_gopt}
UnitsArgs == { << S_c >>, << S_c, S_v >>, << S_c, S_aDashes >>, << S_c, T_ff >> }

RegisterUnits ==
  /\ status = "idle"
  /\ \/ \E name \in UnitsDefs : Command(name, HandlerFor(name), MaxCommands)
     \/ \E path \in UnitsPaths :
          Use(path, MiddlewareId(Len(middlewares) + 1), MaxGlobalMiddlewares)

NextUnits ==
  \/ RegisterUnits
  \/ \E a \in UnitsArgs : Run(a)
  \/ \E i \in LinkIds : LinkReturns(i)
  \/ RunOver

SpecUnits == Init /\ [][NextUnits]_vars

\* one {long, short} entry for each of the units, in their order
UnitEntries(units) ==
  [i \in 1..Len(units) |->
     [long |-> LongOf(units[i]), short |-> ShortOf(units[i])]]
\* the entries of the flag units and of the option units of a pattern
FlagUnitEntries(def) == UnitEntries(SelectSeq(Split(def), UnitIsFlag))
OptionUnitEntries(def) == UnitEntries(SelectSeq(Split(def), UnitIsOption))

\* the patterns that command() and use() stored
StoredDefs ==
  {commands[i].def : i \in 1..Len(commands)}
    \cup {middlewares[i].path : i \in 1..Len(middlewares)}

\* C29 as stated: for every stored pattern extractFlagDefs returns one entry
\* for each flag unit and nothing else, and extractOptionDefs one entry for
\* each option unit and nothing else, both in the order of the units.
C29_OneEntryPerUnit ==
  \A def \in StoredDefs :
    /\ extractFlagDefs(def).defs = FlagUnitEntries(def)
    /\ extractOptionDefs(def).defs = OptionUnitEntries(def)

(***************************************************************************)
(* SpecCopy: inner gets commands and middlewares, the instance that runs   *)
(* gets middlewares of its own and mounts inner, in any order.             *)
(***************************************************************************)
SubMiddlewareId(k) == << "sm", k >>
CopyPrefixes == {S_empty, S_p}
CopyPaths == {P_hh, P_a}
CopyArgs == { << S_a >>, << S_p, S_a >>, << S_p, S_a, T_hh >>, << S_a, S_b, S_v >> }

RegisterCopy ==
  /\ status = "idle"
  /\ \/ \E name \in InnerDefs :
          SubCommand("inner", name, HandlerFor(name), MaxSubCommands)
     \/ \E path \in CopyPaths :
          SubUse("inner", path,
                 SubMiddlewareId(Len(subs["inner"].middlewares) + 1),
                 MaxMiddlewares)
     \/ \E path \in CopyPaths :
          Use(path, MiddlewareId(Len(middlewares) + 1), MaxGlobalMiddlewares)
     \/ \E prefix \in CopyPrefixes : Mount(prefix, "inner")

NextCopy ==
  \/ RegisterCopy
  \/ \E a \in CopyArgs : Run(a)
  \/ \E i \in LinkIds : LinkCallsNext(i, TRUE)
  \/ \E i \in LinkIds : LinkReturns(i)
  \/ \E i \in LinkIds : LinkResumes(i)
  \/ RunOver

SpecCopy == Init /\ [][NextCopy]_vars

\* the handlers that use() calls on inner registered
SubMiddlewareIds == {SubMiddlewareId(k) : k \in 1..(MaxMiddlewares + 1)}

\* C30: the middleware list of the instance that runs holds what its own
\* use() calls pushed, in their order, whatever was mounted into it, and no
\* link of a run on it is a middleware registered on the mounted instance.
C30_MountCopiesCommandsOnly ==
  /\ \A i \in 1..Len(middlewares) : middlewares[i].handler = MiddlewareId(i)
  /\ \A k \in 1..Len(handlers) : handlers[k] \notin SubMiddlewareIds
  /\ \A k \in 1..Len(trace) :
       trace[k][1] = "enter" => handlers[trace[k][2]] \notin SubMiddlewareIds

\* a run on the parent resolves a command mounted from inner, whose own
\* middlewares match it, and its links are the middleware of the parent and
\* the handler
C30_Witness ==
  /\ status = "started"
  /\ actualArgs = << S_p, S_a, T_hh >>
  /\ found.def = newDef(S_p, P_a_opts)
  /\ Len(subs["inner"].middlewares) = 2
  /\ \A i \in 1..2 :
       isMiddlewareMatch(subs["inner"].middlewares[i].path, P_a_opts)
  /\ handlers = << MiddlewareId(1), HandlerFor(P_a_opts) >>
  /\ links[2].st = "returned"

(***************************************************************************)
(* SpecLive: command(), use() and mount() are called at any time, also     *)
(* from the links of a run in progress and while its links are suspended.  *)
(***************************************************************************)
LiveDefs == {P_c}
LiveHandlers(name) == {HandlerFor(name), ReplacedHandlerFor(name)}
LivePrefixes == {S_empty, S_p}
LiveArgs == { << S_c >>, << S_p, S_c >> }
InnerHandlerFor(name) == << "h3", name >>

RegisterLive ==
  \/ \E name \in LiveDefs : \E handler \in LiveHandlers(name) :
       Command(name, handler, MaxCommands)
  \/ Use(P_hh, MiddlewareId(Len(middlewares) + 1), MaxMiddlewares)
  \/ \E name \in LiveDefs :
       SubCommand("inner", name, InnerHandlerFor(name), MaxSubCommands)
  \/ \E prefix \in LivePrefixes : Mount(prefix, "inner")

NextLive ==
  \/ RegisterLive
  \/ \E a \in LiveArgs : Run(a)
  \/ \E i \in LinkIds : LinkCallsNext(i, TRUE)
  \/ \E i \in LinkIds : LinkReturns(i)
  \/ \E i \in LinkIds : LinkResumes(i)
  \/ RunOver

SpecLive == Init /\ [][NextLive]_vars

\* const handlers = [...matchedMiddlewares.map((mw) => mw.handler), handler]
\* for the command that run(argv) resolves on the registry cmds, mws
ChainOf(cmds, mws, argv) ==
  LET Of(entry) ==
        IF entry = NoEntry THEN << >>
        ELSE [i \in 1..(Len(matchedMiddlewares(mws, entry.def)) + 1) |->
                IF i <= Len(matchedMiddlewares(mws, entry.def))
                THEN matchedMiddlewares(mws, entry.def)[i].handler
                ELSE entry.handler]
  IN Of(Route(cmds, argv).found)

\* C26: while a run is in progress no step changes the command it resolved,
\* the list of its links or the values it parsed, and the position in the
\* chain only advances by one link at a time, whatever command(), use() and
\* mount() do to the registry meanwhile; a run that starts takes its command
\* and its chain from the registry as it is at that moment, registrations
\* made during earlier runs included.
C26_ChainFixedAtStart ==
  [][/\ (status = "started" /\ status' = "started") =>
          /\ handlers' = handlers
          /\ found' = found
          /\ << parsedArgs', parsedFlags', parsedOptions' >>
               = << parsedArgs, parsedFlags, parsedOptions >>
          /\ Len(links') = Len(links)
          /\ idx' \in {idx, idx + 1}
     /\ (status # "started" /\ status' = "started") =>
          /\ handlers' = ChainOf(commands, middlewares, actualArgs')
          /\ found' = Route(commands, actualArgs').found]_vars

\* a run suspended in its middleware whose command was replaced by command()
\* or by mount() and whose registry holds a middleware, matching its command,
\* that is not a link of it
C26_Witness ==
  /\ status = "started"
  /\ \E i \in 1..Len(links) : links[i].st = "awaiting"
  /\ Route(commands, actualArgs).found # found
  /\ ChainOf(commands, middlewares, actualArgs) # handlers
  /\ Len(matchedMiddlewares(middlewares, found.def)) >= Len(handlers)

====
